---------------------------- MODULE Spec2Model ----------------------------
(***************************************************************************)
(* A model of the Bw-tree building blocks of src/src/bwtree/bwtree.h:      *)
(*                                                                         *)
(*   - DefaultMappingTable (AllocateNodeID, ReleaseNodeID, CAS, At, Reset) *)
(*     called concurrently by a small set of threads        (Spec),        *)
(*   - the delta posting protocol that the mapping table's CAS and the     *)
(*     DeltaNode next pointer support                       (SpecPost),    *)
(*   - DefaultBaseNode::Search, PointSearch and Split on a sorted base     *)
(*     node                                                 (SpecNode),    *)
(*   - DeltaChainTraverser::Traverse on a delta chain with a handler of    *)
(*     one of three kinds                       (SpecTrav, SpecTravFair).  *)
(*                                                                         *)
(* Pointers are natural numbers, 0 being nullptr.  The program is built    *)
(* either with assertions (debug) or without them (release, NDEBUG); the   *)
(* build is fixed by Init.  A failed assertion ends the process            *)
(* (status = "aborted").  An access the C++ standard leaves undefined ends *)
(* the modelled run in status = "undefined": the model makes no statement  *)
(* about memory from there on and takes no further step.                   *)
(***************************************************************************)
EXTENDS Integers, Sequences, FiniteSets, TLC

\* ------------------------------------------------------------------ bounds
\* Number of slots of the mapping table (the template parameter TABLE_SIZE).
TABLE_SIZE == 2
\* Number of threads calling the mapping table.
NumThreads == 2
\* Deltas that can be allocated in SpecPost.
MaxDeltas == 4
\* Keys are 0..MaxKey.
MaxKey == 3
\* A base node holds at most MaxSize keys.
MaxSize == 3
\* A chain handed to Traverse has at most MaxChain records, base included.
MaxChain == 3

\* The longest bit sequence, in bits.
MaxLength == 9

\* The number of SetBit calls made on the sequences.
MaxSetBits == 1

\* The largest line argument of Print.
MaxLine == 2

\* nullptr
NULL == 0

Threads == 1..NumThreads
\* The valid node IDs.
NIDs == 0..(TABLE_SIZE - 1)
\* Node IDs a caller may pass: the valid ones and one that is out of range.
NIDArgs == 0..TABLE_SIZE
\* The pointers callers hand to AllocateNodeID and CAS in Spec: nullptr and
\* one node.
Ptr == {NULL, 1}
\* "No node ID": INVALID_NODE_ID, the largest unsigned value, written -1.
INVALID_NODE_ID == 0 - 1

VARIABLES
  mapping_table,  \* std::atomic<BaseNodeType *> mapping_table[TABLE_SIZE]
  next_slot,      \* std::atomic<NodeIDType> next_slot
  debug,          \* TRUE: assertions are compiled in; FALSE: NDEBUG
  status,         \* "running", "aborted" (assertion failed), "undefined"
  pc,             \* per thread: where it stands inside a call
  slot,           \* per thread: AllocateNodeID's local variable slot
  node_p,         \* per thread: AllocateNodeID's argument node_p
  last,           \* the call (or step of AllocateNodeID) performed last
  returned,       \* the node IDs AllocateNodeID returned since the last Reset
  oob_store       \* index of a store made outside mapping_table, or -1

mtVars == <<mapping_table, next_slot, debug, status, pc, slot, node_p, last,
            returned, oob_store>>

VARIABLES
  heap,           \* the nodes allocated so far: node pointer -> its fields
  heap_top,       \* the pointer handed out by the latest allocation
  head,           \* per thread: the chain head it loaded with At
  delta,          \* per thread: the delta it built on that head
  pnid,           \* per thread: the NID it posts on
  posted,         \* per NID: the deltas whose CAS succeeded, in CAS order
  attempts        \* every posting CAS made: [nid, old, new, ok]

postVars == <<heap, heap_top, head, delta, pnid, posted, attempts>>

VARIABLES
  bn,             \* a base node (DefaultBaseNode): header, bounds, keys, values
  nres,           \* the base-node call, if it was made last: [fn, op, key, ret]
  newn,           \* the node the last Split returned, or NoBaseNode
  kres            \* the key-range call, if it was made last (see KeyCall)

nodeVars == <<bn, nres, newn, kres>>

VARIABLES
  trav_node_p,    \* Traverse's node_p: the record to dispatch next
  finished,       \* the handler's member finished
  next_p,         \* the handler's member next_p
  hmode,          \* the kind of handler passed to Traverse
  tpc,            \* where Traverse stands: "start", "loop" or "done"
  ndispatch,      \* the number of Handle calls made (it stops at MaxChain + 1)
  last_d,         \* the Handle call made last: [node, handler]
  init_calls      \* the number of Init calls made

travVars == <<trav_node_p, finished, next_p, hmode, tpc, ndispatch, last_d,
              init_calls>>

VARIABLES
  bs,             \* a BitSequence (this): [length, data], data the bytes of data_p
  other,          \* a second BitSequence, the argument of operator==
  nset,           \* the number of SetBit calls made
  bres,           \* the BitSequence call made last: [fn, op, pos, ret]
  ppc,            \* where Print stands: "idle", "loop", "done" or "aborted"
  pargs,          \* Print's arguments: [group, line]
  current,        \* Print's local variable current
  count,          \* Print's local variable count
  out             \* the characters Print has written with putchar

bitVars == <<bs, other, nset, bres, ppc, pargs, current, count, out>>

VARIABLES
  payload,        \* per delta: the key and value it carries
  base_map,       \* the content of the leaf base node: key -> value or NoValue
  ref,            \* the single-threaded reference map: key -> value or NoValue
  cur_op,         \* per thread: the operation it is in, [kind, key, value]
  olast           \* the operation completed last and its result

opVars == <<payload, base_map, ref, cur_op, olast>>

\* A record of one call: its name, arguments and results (the calling thread
\* t is not kept).  ret is the NID or pointer returned; for Reset it is the
\* value of next_slot that the Reset discards.
Call(op, t, nid, old, new, ret, ok) ==
  [op |-> op, nid |-> nid, old |-> old, new |-> new, ret |-> ret, ok |-> ok]

NoCall == Call("none", 0, INVALID_NODE_ID, NULL, NULL, INVALID_NODE_ID, FALSE)

\* -------------------------------------------------- DefaultMappingTable
\* next_slot.fetch_add(1): the value stored back.  (uint64_t; the model's
\* counter stays far below 2^64.)
FetchAddStale(n) == n

FetchAdd(n) == n + 1

\* assert(slot < TABLE_SIZE) in AllocateNodeID
AllocSlotOK(s) == s < TABLE_SIZE

\* mapping_table[slot] = node_p
AllocStoreTableSkip(tbl, s, p) == tbl

AllocStoreTableNull(tbl, s, p) == [tbl EXCEPT ![s] = NULL]

AllocStoreTable(tbl, s, p) == [tbl EXCEPT ![s] = p]

\* assert(node_id < TABLE_SIZE) in ReleaseNodeID, CAS and At
NodeIDOK(nid) == nid < TABLE_SIZE

\* compare_exchange_strong: the value returned
CASResultAlways(tbl, nid, old) == TRUE

CASResult(tbl, nid, old) == tbl[nid] = old

\* compare_exchange_strong: the table it leaves
CASTableBlind(tbl, nid, old, new) == [tbl EXCEPT ![nid] = new]

CASTable(tbl, nid, old, new) ==
  IF tbl[nid] = old THEN [tbl EXCEPT ![nid] = new] ELSE tbl

\* mapping_table[node_id].load()
At(tbl, nid) == tbl[nid]

\* ReleaseNodeID leaves the table and the counter as they are.
ReleaseTableClear(tbl, nid) == [tbl EXCEPT ![nid] = NULL]

ReleaseTable(tbl, nid) == tbl

ReleaseNextReclaim(n, nid) == IF nid + 1 = n THEN nid ELSE n

ReleaseNext(n, nid) == n

\* memset(mapping_table, 0x00, sizeof(mapping_table))
ResetTable(tbl) == [i \in DOMAIN tbl |-> NULL]

\* next_slot = NodeIDType{0}
ResetNextKeep(n) == n

ResetNext(n) == 0

\* The constructor initialises next_slot only.  The slots are default-
\* initialised std::atomic pointers: null since C++20, indeterminate before,
\* so a slot starts with any pointer value.
InitTable ==
  /\ mapping_table \in [NIDs -> Ptr]
  /\ next_slot = 0
  /\ debug \in BOOLEAN
  /\ status = "running"
  /\ pc = [t \in Threads |-> "idle"]
  /\ slot = [t \in Threads |-> INVALID_NODE_ID]
  /\ node_p = [t \in Threads |-> NULL]
  /\ last = NoCall
  /\ returned = <<>>
  /\ oob_store = INVALID_NODE_ID

\* The process ends on a failed assertion; op names the function asserting.
Abort(t, op, nid) ==
  /\ status' = "aborted"
  /\ last' = Call(op, t, nid, NULL, NULL, INVALID_NODE_ID, FALSE)

\* AllocateNodeID, first half: NodeIDType slot = next_slot.fetch_add(1)
AllocFetchAdd(t, p) ==
  /\ status = "running"
  /\ UNCHANGED <<postVars, nodeVars, travVars, bitVars, opVars>>
  /\ pc[t] = "idle"
  /\ slot' = [slot EXCEPT ![t] = next_slot]
  /\ next_slot' = FetchAdd(next_slot)
  /\ node_p' = [node_p EXCEPT ![t] = p]
  /\ pc' = [pc EXCEPT ![t] = "alloc_store"]
  /\ last' = Call("fetch_add", t, INVALID_NODE_ID, NULL, p, next_slot, TRUE)
  /\ UNCHANGED <<mapping_table, debug, status, returned, oob_store>>

\* AllocateNodeID, second half: the assertion (debug only), the store into
\* the slot and the return.  With the assertion compiled out a slot index
\* >= TABLE_SIZE is stored to all the same; that store is outside the array.
AllocStore(t) ==
  /\ status = "running"
  /\ UNCHANGED <<postVars, nodeVars, travVars, bitVars, opVars>>
  /\ pc[t] = "alloc_store"
  /\ IF debug /\ ~AllocSlotOK(slot[t])
       THEN /\ Abort(t, "assert_AllocateNodeID", slot[t])
            /\ UNCHANGED <<mapping_table, next_slot, debug, pc, slot, node_p,
                           returned, oob_store>>
       ELSE IF slot[t] \in NIDs
         THEN /\ mapping_table' = AllocStoreTable(mapping_table, slot[t], node_p[t])
              /\ returned' = Append(returned, slot[t])
              /\ pc' = [pc EXCEPT ![t] = "idle"]
              /\ slot' = [slot EXCEPT ![t] = INVALID_NODE_ID]
              /\ node_p' = [node_p EXCEPT ![t] = NULL]
              /\ last' = Call("AllocateNodeID", t, slot[t], NULL, node_p[t],
                              slot[t], TRUE)
              /\ UNCHANGED <<next_slot, debug, status, oob_store>>
         ELSE /\ oob_store' = slot[t]
              /\ status' = "undefined"
              /\ last' = Call("oob_AllocateNodeID", t, slot[t], NULL, node_p[t],
                              INVALID_NODE_ID, FALSE)
              /\ UNCHANGED <<mapping_table, next_slot, debug, pc, slot, node_p,
                             returned>>

\* ReleaseNodeID(node_id)
ReleaseNodeID(t, nid) ==
  /\ status = "running"
  /\ UNCHANGED <<postVars, nodeVars, travVars, bitVars, opVars>>
  /\ pc[t] = "idle"
  /\ IF debug /\ ~NodeIDOK(nid)
       THEN /\ Abort(t, "assert_ReleaseNodeID", nid)
            /\ UNCHANGED <<mapping_table, next_slot>>
       ELSE /\ mapping_table' =
                 IF nid \in NIDs THEN ReleaseTable(mapping_table, nid)
                                 ELSE mapping_table
            /\ next_slot' = ReleaseNext(next_slot, nid)
            /\ last' = Call("ReleaseNodeID", t, nid, NULL, NULL,
                            INVALID_NODE_ID, TRUE)
            /\ UNCHANGED status
  /\ UNCHANGED <<debug, pc, slot, node_p, returned, oob_store>>

\* CAS(node_id, old_value, new_value): one atomic compare_exchange_strong
CAS(t, nid, old, new) ==
  /\ status = "running"
  /\ UNCHANGED <<postVars, nodeVars, travVars, bitVars, opVars>>
  /\ pc[t] = "idle"
  /\ IF ~NodeIDOK(nid)
       THEN /\ IF debug
                 THEN Abort(t, "assert_CAS", nid)
                 ELSE /\ status' = "undefined"
                      /\ last' = Call("oob_CAS", t, nid, old, new,
                                      INVALID_NODE_ID, FALSE)
            /\ UNCHANGED mapping_table
       ELSE /\ mapping_table' = CASTable(mapping_table, nid, old, new)
            /\ last' = Call("CAS", t, nid, old, new, INVALID_NODE_ID,
                            CASResult(mapping_table, nid, old))
            /\ UNCHANGED status
  /\ UNCHANGED <<next_slot, debug, pc, slot, node_p, returned, oob_store>>

\* At(node_id)
AtCall(t, nid) ==
  /\ status = "running"
  /\ UNCHANGED <<postVars, nodeVars, travVars, bitVars, opVars>>
  /\ pc[t] = "idle"
  /\ IF ~NodeIDOK(nid)
       THEN IF debug
              THEN Abort(t, "assert_At", nid)
              ELSE /\ status' = "undefined"
                   /\ last' = Call("oob_At", t, nid, NULL, NULL,
                                   INVALID_NODE_ID, FALSE)
       ELSE /\ last' = Call("At", t, nid, NULL, NULL,
                            At(mapping_table, nid), TRUE)
            /\ UNCHANGED status
  /\ UNCHANGED <<mapping_table, next_slot, debug, pc, slot, node_p, returned,
                 oob_store>>

\* Reset(): memset over the table, then the counter.  It is a test-only
\* call made while no other thread is inside the table (the memset is no
\* atomic access), which is its guard here.
Reset(t) ==
  /\ status = "running"
  /\ UNCHANGED <<postVars, nodeVars, travVars, bitVars, opVars>>
  /\ \A u \in Threads : pc[u] = "idle"
  /\ mapping_table' = ResetTable(mapping_table)
  /\ next_slot' = ResetNext(next_slot)
  /\ returned' = <<>>
  /\ last' = Call("Reset", t, INVALID_NODE_ID, NULL, NULL, next_slot, TRUE)
  /\ UNCHANGED <<debug, status, pc, slot, node_p, oob_store>>

NextTable ==
  \E t \in Threads :
    \/ \E p \in Ptr : AllocFetchAdd(t, p)
    \/ AllocStore(t)
    \/ \E nid \in NIDArgs : ReleaseNodeID(t, nid)
    \/ \E nid \in NIDArgs, old \in Ptr, new \in Ptr : CAS(t, nid, old, new)
    \/ \E nid \in NIDArgs : AtCall(t, nid)
    \/ Reset(t)

\* ------------------------------------------- BoundKey, NodeBase, base node
Keys == 0..MaxKey

\* BoundKey::Get(key) and BoundKey::GetInf() (the key of an infinite bound
\* is KeyType{}, 0 for an integer key).
BoundKeyGet(k) == [key |-> k, inf |-> FALSE]

BoundKeyGetInf == [key |-> 0, inf |-> TRUE]

BoundKeys == {BoundKeyGetInf} \cup {BoundKeyGet(k) : k \in Keys}

\* NodeBase::KeyLargerThanNode: high_key_p->IsInf() == false && *high_key_p <= key
KeyLargerThanNodeStrict(n, key) == n.high.inf = FALSE /\ n.high.key < key

KeyLargerThanNode(n, key) == n.high.inf = FALSE /\ n.high.key <= key

\* NodeBase::KeySmallerThanNode: low_key_p->IsInf() == false && *low_key_p > key
KeySmallerThanNode(n, key) == n.low.inf = FALSE /\ n.low.key > key

\* NodeBase::KeyInNode
KeyInNode(n, key) ==
  KeyLargerThanNode(n, key) = FALSE /\ KeySmallerThanNode(n, key) = FALSE

\* The bounds that NodeBase::KeyLargerThanNode hands to a comparison operator
\* of BoundKey (each of which starts with assert(!inf)), in evaluation order:
\* && evaluates *high_key_p <= key only when IsInf() == false held.
KeyLargerThanNodeComparesAlways(n, key) == <<n.high>>

KeyLargerThanNodeCompares(n, key) ==
  IF n.high.inf = FALSE THEN <<n.high>> ELSE <<>>

\* The same for NodeBase::KeySmallerThanNode and *low_key_p > key.
KeySmallerThanNodeCompares(n, key) ==
  IF n.low.inf = FALSE THEN <<n.low>> ELSE <<>>

\* The same for NodeBase::KeyInNode, which calls KeySmallerThanNode only
\* when KeyLargerThanNode(key) == false held.
KeyInNodeCompares(n, key) ==
  KeyLargerThanNodeCompares(n, key) \o
    (IF KeyLargerThanNode(n, key) = FALSE
       THEN KeySmallerThanNodeCompares(n, key) ELSE <<>>)

\* DefaultBaseNode::Get followed by the filling in of the keys and values:
\* a base node of height 0 whose size is the number of keys it holds.
BaseNodeGet(ptype, pkeys, pvalues, plow_key, phigh_key) ==
  [type |-> ptype, height |-> 0, size |-> Len(pkeys), low |-> plow_key,
   high |-> phigh_key, keys |-> pkeys, values |-> pvalues]

\* No node (a null DefaultBaseNode pointer).
NoBaseNode ==
  [type |-> "none", height |-> 0, size |-> 0, low |-> BoundKeyGetInf,
   high |-> BoundKeyGetInf, keys |-> <<>>, values |-> <<>>]

\* KeyAt(index): KeyBegin()[index], indices counted from 0.
KeyAt(n, index) == n.keys[index + 1]

\* ValueAt(index): ValueBegin()[index]
ValueAt(n, index) == n.values[index + 1]

\* std::upper_bound(first, first + len, val) over the node's keys, as a
\* binary search: the first index in [first, first + len) whose key is
\* greater than val, or first + len.
RECURSIVE UpperBound(_, _, _, _)
UpperBound(n, first, len, val) ==
  IF len <= 0 THEN first
  ELSE LET half == len \div 2
           middle == first + half IN
       IF val < KeyAt(n, middle)
         THEN UpperBound(n, first, half, val)
         ELSE UpperBound(n, middle + 1, len - half - 1, val)

\* DefaultBaseNode::Search:
\*   (std::upper_bound(KeyBegin() + 1, KeyEnd(), key) - KeyBegin()) - 1
RECURSIVE LowerBound(_, _, _, _)
LowerBound(n, first, len, val) ==
  IF len <= 0 THEN first
  ELSE LET half == len \div 2
           middle == first + half IN
       IF KeyAt(n, middle) < val
         THEN LowerBound(n, middle + 1, len - half - 1, val)
         ELSE LowerBound(n, first, half, val)

SearchLowerBound(n, key) == LowerBound(n, 1, n.size - 1, key) - 1

Search(n, key) == UpperBound(n, 1, n.size - 1, key) - 1

\* DefaultBaseNode::PointSearch:
\*   int index = Search(key); return KeyAt(index) == key ? index : -1;
PointSearchNoCompare(n, key) == Search(n, key)

PointSearch(n, key) ==
  IF KeyAt(n, Search(n, key)) = key THEN Search(n, key) ELSE 0 - 1

\* assert(old_size > 1) in Split
SplitSizeOKOffByOne(old_size) == old_size > 0

SplitSizeOK(old_size) == old_size > 1

\* NodeSizeType pivot = old_size / 2
SplitPivot(old_size) == old_size \div 2

\* The node Split returns: Get(type, old_size - pivot, {KeyAt(pivot), false},
\* high key) with the keys and values of [pivot, old_size) copied into it.
SplitKeepsLow(n) ==
  LET pivot == SplitPivot(n.size) IN
  BaseNodeGet(n.type, SubSeq(n.keys, pivot + 1, n.size),
              SubSeq(n.values, pivot + 1, n.size), n.low, n.high)

SplitCopiesFromBegin(n) ==
  LET pivot == SplitPivot(n.size) IN
  BaseNodeGet(n.type, SubSeq(n.keys, 1, n.size - pivot),
              SubSeq(n.values, 1, n.size - pivot),
              [key |-> KeyAt(n, pivot), inf |-> FALSE], n.high)

Split(n) ==
  LET pivot == SplitPivot(n.size) IN
  BaseNodeGet(n.type, SubSeq(n.keys, pivot + 1, n.size),
              SubSeq(n.values, pivot + 1, n.size),
              [key |-> KeyAt(n, pivot), inf |-> FALSE], n.high)

\* The node Split is called on, as Split leaves it: it writes to the new
\* node only.
SplitOriginalTruncated(n) ==
  [n EXCEPT !.size = SplitPivot(n.size),
            !.keys = SubSeq(n.keys, 1, SplitPivot(n.size)),
            !.values = SubSeq(n.values, 1, SplitPivot(n.size)),
            !.high = BoundKeyGet(KeyAt(n, SplitPivot(n.size)))]

SplitOriginal(n) == n

\* The strictly ascending key sequences of at most MaxSize keys.
AscendingKeys ==
  {ks \in UNION {[1..m -> Keys] : m \in 0..MaxSize} :
     \A i \in 1..(Len(ks) - 1) : ks[i] < ks[i + 1]}

\* The values stored with the keys ks: ValueType is KeyType here (KeyBegin()
\* returns the key array as ValueType *), and the value of a key is the key
\* itself or its mirror image in the key range.
ValueLayouts(ks) ==
  {[i \in 1..Len(ks) |-> ks[i]], [i \in 1..Len(ks) |-> MaxKey - ks[i]]}

\* A record of one base-node call: the function called, how it ended, its
\* key argument and the index it returned.
NodeCall(fn, op, key, ret) == [fn |-> fn, op |-> op, key |-> key, ret |-> ret]

NoNodeCall == NodeCall("none", "none", 0, 0 - 1)

\* A record of one call of KeyLargerThanNode, KeySmallerThanNode or
\* KeyInNode: the function, how it ended, its key argument, the value it
\* returned and the bounds it handed to BoundKey's comparison operators.
KeyCall(fn, op, key, ret, compared) ==
  [fn |-> fn, op |-> op, key |-> key, ret |-> ret, compared |-> compared]

NoKeyCall == KeyCall("none", "none", 0, FALSE, <<>>)

\* No base node is under test.
InitNoNode ==
  /\ bn = BaseNodeGet("LeafBase", <<>>, <<>>, BoundKeyGetInf, BoundKeyGetInf)
  /\ nres = NoNodeCall
  /\ newn = NoBaseNode
  /\ kres = NoKeyCall

\* A leaf or inner base node with strictly ascending keys and any bounds.
InitNode ==
  /\ \E ptype \in {"LeafBase", "InnerBase"}, ks \in AscendingKeys,
        lo \in BoundKeys, hi \in BoundKeys :
       \E vs \in ValueLayouts(ks) : bn = BaseNodeGet(ptype, ks, vs, lo, hi)
  /\ nres = NoNodeCall
  /\ newn = NoBaseNode
  /\ kres = NoKeyCall
  /\ debug \in BOOLEAN
  /\ status = "running"

\* int Search(const KeyType &key).  The first assertion is KeyInNode(key),
\* the second that the index is in [0, size).  On a node of size 0 the
\* range handed to std::upper_bound starts behind its end, which the
\* standard leaves undefined (with assertions the second one may still be
\* what stops the call).
SearchCall(key) ==
  /\ status = "running"
  /\ IF debug /\ ~KeyInNode(bn, key)
       THEN /\ status' = "aborted"
            /\ nres' = NodeCall("Search", "assert_Search", key, 0 - 1)
       ELSE IF bn.size = 0
         THEN /\ status' \in IF debug THEN {"aborted", "undefined"}
                                      ELSE {"undefined"}
              /\ nres' = NodeCall("Search", "invalid_range", key, 0 - 1)
         ELSE IF debug /\ ~(Search(bn, key) >= 0 /\ Search(bn, key) < bn.size)
           THEN /\ status' = "aborted"
                /\ nres' = NodeCall("Search", "assert_Search", key,
                                     Search(bn, key))
           ELSE /\ status' = status
                /\ nres' = NodeCall("Search", "Search", key, Search(bn, key))
  /\ kres' = NoKeyCall
  /\ UNCHANGED <<bn, newn, debug>>
  /\ UNCHANGED <<mapping_table, next_slot, pc, slot, node_p, last, returned,
                 oob_store, postVars, travVars, bitVars, opVars>>

\* int PointSearch(const KeyType &key): Search with its two assertions, then
\* the comparison of the key found with the key searched.
PointSearchCall(key) ==
  /\ status = "running"
  /\ IF debug /\ ~KeyInNode(bn, key)
       THEN /\ status' = "aborted"
            /\ nres' = NodeCall("PointSearch", "assert_Search", key, 0 - 1)
       ELSE IF bn.size = 0
         THEN /\ status' \in IF debug THEN {"aborted", "undefined"}
                                      ELSE {"undefined"}
              /\ nres' = NodeCall("PointSearch", "invalid_range", key, 0 - 1)
         ELSE IF debug /\ ~(Search(bn, key) >= 0 /\ Search(bn, key) < bn.size)
           THEN /\ status' = "aborted"
                /\ nres' = NodeCall("PointSearch", "assert_Search", key,
                                     Search(bn, key))
           ELSE /\ status' = status
                /\ nres' = NodeCall("PointSearch", "PointSearch", key,
                                     PointSearch(bn, key))
  /\ kres' = NoKeyCall
  /\ UNCHANGED <<bn, newn, debug>>
  /\ UNCHANGED <<mapping_table, next_slot, pc, slot, node_p, last, returned,
                 oob_store, postVars, travVars, bitVars, opVars>>

\* DefaultBaseNode *Split().  Without the assertion a node of size 1 is
\* split at pivot 0, and on a node of size 0 KeyAt(0) is read behind the
\* node's storage.  nres.ret records the pivot.
SplitCall ==
  /\ status = "running"
  /\ IF debug /\ ~SplitSizeOK(bn.size)
       THEN /\ status' = "aborted"
            /\ nres' = NodeCall("Split", "assert_Split", 0, 0 - 1)
            /\ newn' = NoBaseNode
            /\ UNCHANGED bn
       ELSE IF bn.size = 0
         THEN /\ status' = "undefined"
              /\ nres' = NodeCall("Split", "oob_KeyAt", 0, 0 - 1)
              /\ newn' = NoBaseNode
              /\ UNCHANGED bn
         ELSE /\ newn' = Split(bn)
              /\ bn' = SplitOriginal(bn)
              /\ nres' = NodeCall("Split", "Split", 0, SplitPivot(bn.size))
              /\ UNCHANGED status
  /\ kres' = NoKeyCall
  /\ UNCHANGED debug
  /\ UNCHANGED <<mapping_table, next_slot, pc, slot, node_p, last, returned,
                 oob_store, postVars, travVars, bitVars, opVars>>

\* One call of a key-range function on the node.  A comparison operator
\* handed an infinite bound fails its assert(!inf); without assertions it
\* compares the KeyType{} stored in the bound.
KeyRangeCall(fn, key, ret, compared) ==
  /\ status = "running"
  /\ IF debug /\ \E i \in 1..Len(compared) : compared[i].inf
       THEN /\ status' = "aborted"
            /\ kres' = KeyCall(fn, "assert_BoundKey", key, FALSE, compared)
       ELSE /\ status' = status
            /\ kres' = KeyCall(fn, fn, key, ret, compared)
  /\ nres' = NoNodeCall
  /\ UNCHANGED <<bn, newn, debug>>
  /\ UNCHANGED <<mapping_table, next_slot, pc, slot, node_p, last, returned,
                 oob_store, postVars, travVars, bitVars, opVars>>

\* bool KeyLargerThanNode(const KeyType &key)
KeyLargerThanNodeCall(key) ==
  KeyRangeCall("KeyLargerThanNode", key, KeyLargerThanNode(bn, key),
               KeyLargerThanNodeCompares(bn, key))

\* bool KeySmallerThanNode(const KeyType &key)
KeySmallerThanNodeCall(key) ==
  KeyRangeCall("KeySmallerThanNode", key, KeySmallerThanNode(bn, key),
               KeySmallerThanNodeCompares(bn, key))

\* bool KeyInNode(const KeyType &key)
KeyInNodeCall(key) ==
  KeyRangeCall("KeyInNode", key, KeyInNode(bn, key),
               KeyInNodeCompares(bn, key))

NextNode ==
  \/ \E key \in Keys : SearchCall(key)
  \/ \E key \in Keys : PointSearchCall(key)
  \/ SplitCall
  \/ \E key \in Keys : KeyLargerThanNodeCall(key)
  \/ \E key \in Keys : KeySmallerThanNodeCall(key)
  \/ \E key \in Keys : KeyInNodeCall(key)

\* ------------------------------------------------------ delta posting
\* In SpecPost a pointer names the node object it points to: the bases are
\* nodes 1..TABLE_SIZE and every delta built is a new node.  (The source
\* never deletes a delta, so no address is handed out twice.)
NodeIds == 1..(TABLE_SIZE + MaxDeltas)

NoNode == [type |-> "free", height |-> 0, next |-> NULL]

\* The node types of enum class NodeType.
BaseTypes == {"LeafBase", "InnerBase"}

MergeTypes == {"LeafMerge", "InnerMerge"}

LeafDeltaTypes ==
  {"LeafInsert", "LeafDelete", "LeafSplit", "LeafRemove", "LeafMerge"}

InnerDeltaTypes ==
  {"InnerInsert", "InnerDelete", "InnerSplit", "InnerRemove", "InnerMerge"}

\* DefaultBaseNode::Get as seen from a chain: a node of height 0 without a
\* next pointer.
BaseNodeOf(ptype) == [type |-> ptype, height |-> 0, next |-> NULL]

BaseNode == BaseNodeOf("LeafBase")

\* The DeltaNode constructor: NodeBase{ptype, pheight, ...} and
\* next_node_p{pnext_node_p}.
DeltaNodeNoNext(ptype, pheight, pnext_node_p) ==
  [type |-> ptype, height |-> pheight, next |-> NULL]

DeltaNodeNoHeight(ptype, pheight, pnext_node_p) ==
  [type |-> ptype, height |-> 0, next |-> pnext_node_p]

DeltaNode(ptype, pheight, pnext_node_p) ==
  [type |-> ptype, height |-> pheight, next |-> pnext_node_p]

\* The height the poster gives a delta built on head h: one more than h's.
PostHeight(h) == heap[h].height + 1

\* DeltaNode::GetNext
GetNext(n) == heap[n].next

\* ------------------------------------------------- DeltaChainTraverser
NoDispatch == [node |-> NULL, handler |-> "none"]

\* No traversal is under way.
InitNoTrav ==
  /\ trav_node_p = NULL
  /\ finished = FALSE
  /\ next_p = NULL
  /\ hmode = "none"
  /\ tpc = "done"
  /\ ndispatch = 0
  /\ last_d = NoDispatch
  /\ init_calls = 0

\* The pointer values a handler may hold in next_p: null, the records of a
\* chain, and MaxChain + 1 more for a pointer to no record at all.
TravPointers == 0..(MaxChain + 1)

\* The type sequences of the chains: up to MaxChain - 1 deltas of one family
\* (leaf or inner), then the base node of that family.
ChainsOf(deltas, base) ==
  UNION {{[i \in 1..len |-> IF i = len THEN base ELSE d[i]] :
            d \in [1..(len - 1) -> deltas]} : len \in 1..MaxChain}

TravChains ==
  ChainsOf(LeafDeltaTypes, "LeafBase") \cup ChainsOf(InnerDeltaTypes, "InnerBase")

\* The nodes of a chain with the types ts: record n is followed by n + 1,
\* the last is the base node.
ChainHeap(ts) ==
  [n \in NodeIds |->
     IF n < Len(ts) THEN DeltaNode(ts[n], Len(ts) - n, n + 1)
     ELSE IF n = Len(ts) THEN BaseNodeOf(ts[n])
     ELSE NoNode]

\* The pointer points to a record.
ValidNode(p) == p \in NodeIds /\ heap[p].type # "free"

\* The switch of Traverse: the handler method called for a node type.
HandlerForInner(type) ==
  CASE type = "LeafBase" -> "HandleInnerBase"
    [] type = "InnerBase" -> "HandleInnerBase"
    [] type = "LeafInsert" -> "HandleInnerInsert"
    [] type = "InnerInsert" -> "HandleInnerInsert"
    [] type = "LeafDelete" -> "HandleInnerDelete"
    [] type = "InnerDelete" -> "HandleInnerDelete"
    [] type = "LeafSplit" -> "HandleInnerSplit"
    [] type = "InnerSplit" -> "HandleInnerSplit"
    [] type = "LeafMerge" -> "HandleInnerMerge"
    [] type = "InnerMerge" -> "HandleInnerMerge"
    [] type = "LeafRemove" -> "HandleInnerRemove"
    [] type = "InnerRemove" -> "HandleInnerRemove"

HandlerFor(type) ==
  CASE type = "LeafBase" -> "HandleLeafBase"
    [] type = "InnerBase" -> "HandleInnerBase"
    [] type = "LeafInsert" -> "HandleLeafInsert"
    [] type = "InnerInsert" -> "HandleInnerInsert"
    [] type = "LeafDelete" -> "HandleLeafDelete"
    [] type = "InnerDelete" -> "HandleInnerDelete"
    [] type = "LeafSplit" -> "HandleLeafSplit"
    [] type = "InnerSplit" -> "HandleInnerSplit"
    [] type = "LeafMerge" -> "HandleLeafMerge"
    [] type = "InnerMerge" -> "HandleInnerMerge"
    [] type = "LeafRemove" -> "HandleLeafRemove"
    [] type = "InnerRemove" -> "HandleInnerRemove"

\* The cases of the switch that assert handler_p->Finished() == true after
\* the handler: the base nodes and the merge deltas.
AssertsFinishedMergeOnly(type) == type \in MergeTypes

AssertsFinishedBaseOnly(type) == type \in BaseTypes

AssertsFinished(type) == type \in BaseTypes \cup MergeTypes

\* node_p = handler_p->GetNext(): the record Traverse goes on with is the
\* handler's next_p (hnext), not taken from the record d just handled.
TravNextOwn(hnext, d) == heap[d].next

TravNext(hnext, d) == hnext

\* What a handler's Init may leave in finished and next_p.  Members the
\* handler does not assign are uninitialised and hold any value.
HandlerInit(mode) ==
  IF mode = "follow"
    THEN {[finished |-> FALSE, next_p |-> q] : q \in TravPointers}
    ELSE {[finished |-> f, next_p |-> q] : f \in BOOLEAN, q \in TravPointers}

\* What a Handle method may leave in finished and next_p, by handler kind:
\*   "any"      assigns anything to both;
\*   "follow"   advances along the records' next pointers: on a delta it
\*              assigns the delta's next pointer to next_p and may finish,
\*              on a base node, which has no next pointer, it finishes;
\*   "noassign" never assigns next_p.
HandlerHandle(mode, d) ==
  IF mode = "follow"
    THEN IF heap[d].type \in BaseTypes
           THEN {[finished |-> TRUE, next_p |-> next_p]}
           ELSE {[finished |-> f, next_p |-> GetNext(d)] : f \in BOOLEAN}
    ELSE IF mode = "noassign"
      THEN {[finished |-> f, next_p |-> next_p] : f \in BOOLEAN}
      ELSE {[finished |-> f, next_p |-> q] : f \in BOOLEAN, q \in TravPointers}

\* Traverse is called with the head of a chain and a handler.
InitTrav ==
  /\ \E ts \in TravChains : heap = ChainHeap(ts) /\ heap_top = Len(ts)
  /\ head = [t \in Threads |-> NULL]
  /\ delta = [t \in Threads |-> NULL]
  /\ pnid = [t \in Threads |-> INVALID_NODE_ID]
  /\ posted = [i \in NIDs |-> <<>>]
  /\ attempts = {}
  /\ trav_node_p = 1
  /\ finished = FALSE
  /\ next_p = NULL
  /\ hmode \in {"any", "follow", "noassign"}
  /\ tpc = "start"
  /\ ndispatch = 0
  /\ last_d = NoDispatch
  /\ init_calls = 0
  /\ debug \in BOOLEAN
  /\ status = "running"

\* handler_p->Init(node_p)
TravInit ==
  /\ status = "running"
  /\ tpc = "start"
  /\ \E h \in HandlerInit(hmode) :
       /\ finished' = h.finished
       /\ next_p' = h.next_p
  /\ init_calls' = init_calls + 1
  /\ tpc' = "loop"
  /\ UNCHANGED <<trav_node_p, hmode, ndispatch, last_d>>
  /\ UNCHANGED <<mtVars, postVars, nodeVars, bitVars, opVars>>

\* One turn of the while loop: node_p->GetType(), the switch with the
\* Handle call and, for base and merge records, the assertion, then the
\* test of Finished() and node_p = handler_p->GetNext().  GetType() on a
\* pointer to no record is undefined.
TravDispatch ==
  /\ status = "running"
  /\ tpc = "loop"
  /\ IF ~ValidNode(trav_node_p)
       THEN /\ status' = "undefined"
            /\ UNCHANGED <<trav_node_p, finished, next_p, tpc, ndispatch,
                           last_d>>
       ELSE \E h \in HandlerHandle(hmode, trav_node_p) :
            /\ finished' = h.finished
            /\ next_p' = h.next_p
            /\ last_d' = [node |-> trav_node_p,
                          handler |-> HandlerFor(heap[trav_node_p].type)]
            /\ ndispatch' = IF ndispatch <= MaxChain THEN ndispatch + 1
                                                     ELSE ndispatch
            /\ IF debug /\ AssertsFinished(heap[trav_node_p].type)
                        /\ ~h.finished
                 THEN /\ status' = "aborted"
                      /\ UNCHANGED <<trav_node_p, tpc>>
                 ELSE IF h.finished
                   THEN /\ tpc' = "done"
                        /\ UNCHANGED <<trav_node_p, status>>
                   ELSE /\ trav_node_p' = TravNext(h.next_p, trav_node_p)
                        /\ UNCHANGED <<tpc, status>>
  /\ UNCHANGED <<hmode, init_calls>>
  /\ UNCHANGED <<mapping_table, next_slot, debug, pc, slot, node_p, last,
                 returned, oob_store, postVars, nodeVars, bitVars, opVars>>

NextTrav == TravInit \/ TravDispatch

\* -------------------------------------------------------- BitSequence
\* src/test/binary-util.cpp.  Bit pos of a sequence lives in byte pos / 8 of
\* data_p at bit pos % 8; a sequence of length bits has (length + 7) / 8
\* bytes.
BYTE_OFFSET(pos) == pos \div 8

BIT_OFFSET(pos) == pos % 8

ALLOC_SIZE(new_size) == (new_size + 7) \div 8

\* size_t arithmetic: SIZE_MAX is the largest value of the type, the value
\* 0 - 1 wraps to.  (The model's integers are narrower than 64 bits; the
\* largest of them stands for it, above every length there is.)
SIZE_MAX == 2147483647

SizeSub(a, b) == IF a >= b THEN a - b ELSE SIZE_MAX - (b - a) + 1

Lengths == 1..MaxLength

\* Make(new_size): new_size bits, the storage zeroed.
Make(new_size) ==
  [length |-> new_size, data |-> [j \in 1..ALLOC_SIZE(new_size) |-> 0]]

\* The test of always_assert(pos < length) in SetBit and GetBit.
PosOK(s, pos) == pos < s.length

\* GetBit(pos): !!(data_p[BYTE_OFFSET(pos)] & (0x01 << BIT_OFFSET(pos)))
GetBit(s, pos) == (s.data[BYTE_OFFSET(pos) + 1] \div (2 ^ BIT_OFFSET(pos))) % 2 = 1

\* The sequence after SetBit(pos, value): the byte with the mask bit
\* cleared (&= ~mask) or set (|= mask).
SetBit(s, pos, value) ==
  LET mask == 2 ^ BIT_OFFSET(pos)
      byte == s.data[BYTE_OFFSET(pos) + 1]
      cleared == IF GetBit(s, pos) THEN byte - mask ELSE byte IN
  [s EXCEPT !.data[BYTE_OFFSET(pos) + 1] =
              IF value = FALSE THEN cleared ELSE cleared + mask]

\* memcmp(a.data_p, b.data_p, n) == 0
MemcmpEqual(a, b, n) == \A j \in 1..n : a.data[j] = b.data[j]

\* The loop of operator==, from index i on:
\*   for(size_t i = 0; i < unused_bit; i++)
\*     if(GetBit(length - i - 1) != other.GetBit(length - i - 1)) return false;
\* It ends in a return value or in GetBit's assertion; pos is the position
\* of the GetBit call made last.
RECURSIVE EqLoop(_, _, _, _)
EqLoop(a, b, i, unused_bit) ==
  IF ~(i < unused_bit)
    THEN [op |-> "return", ret |-> TRUE,
          pos |-> IF i = 0 THEN 0 ELSE SizeSub(SizeSub(a.length, i - 1), 1)]
    ELSE LET pos == SizeSub(SizeSub(a.length, i), 1) IN
         IF ~PosOK(a, pos) \/ ~PosOK(b, pos)
           THEN [op |-> "assert_GetBit", ret |-> FALSE, pos |-> pos]
           ELSE IF GetBit(a, pos) # GetBit(b, pos)
             THEN [op |-> "return", ret |-> FALSE, pos |-> pos]
             ELSE EqLoop(a, b, i + 1, unused_bit)

\* bool BitSequence::operator==(const BitSequence &other) const
OperatorEq(a, b) ==
  LET full_byte == BYTE_OFFSET(a.length)
      unused_bit == (8 - (a.length % 8)) % 8 IN
  IF a.length # b.length
    THEN [op |-> "return", ret |-> FALSE, pos |-> 0]
    ELSE IF ~MemcmpEqual(a, b, full_byte)
      THEN [op |-> "return", ret |-> FALSE, pos |-> 0]
      ELSE EqLoop(a, b, 0, unused_bit)

\* A record of one call: the function, how it ended, the bit position it
\* was about and the value it returned.
BitCall(fn, op, pos, ret) == [fn |-> fn, op |-> op, pos |-> pos, ret |-> ret]

NoBitCall == BitCall("none", "none", 0, FALSE)

\* No sequence (a BitSequence never made).
NoSeq == [length |-> 0, data |-> <<>>]

\* Print's arguments and the warning it printed with dbg_printf about them.
PrintArgs(group, line, warn) == [group |-> group, line |-> line, warn |-> warn]

NoPrintArgs == PrintArgs(0, 0, "none")

\* No bit sequence is under test.
InitNoBits ==
  /\ bs = NoSeq
  /\ other = NoSeq
  /\ nset = 0
  /\ bres = NoBitCall
  /\ ppc = "idle"
  /\ pargs = NoPrintArgs
  /\ current = 0
  /\ count = 0
  /\ out = <<>>

\* Two sequences just made, of any two lengths.
InitBits ==
  /\ \E n \in Lengths, m \in Lengths : bs = Make(n) /\ other = Make(m)
  /\ nset = 0
  /\ bres = NoBitCall
  /\ ppc = "idle"
  /\ pargs = NoPrintArgs
  /\ current = 0
  /\ count = 0
  /\ out = <<>>

\* One sequence just made, to be printed.
InitPrint ==
  /\ \E n \in Lengths : bs = Make(n)
  /\ other = NoSeq
  /\ nset = 0
  /\ bres = NoBitCall
  /\ ppc = "idle"
  /\ pargs = NoPrintArgs
  /\ current = 0
  /\ count = 0
  /\ out = <<>>

\* bool SetBit(size_t pos, bool value) on this (which = 0) or on other
\* (which = 1), at most MaxSetBits times.  It returns the bit's old value.
SetBitCall(which, pos, value) ==
  /\ status = "running"
  /\ ppc = "idle"
  /\ nset < MaxSetBits
  /\ LET s == IF which = 0 THEN bs ELSE other IN
     /\ s.length > 0
     /\ IF ~PosOK(s, pos)
          THEN /\ status' = "aborted"
               /\ bres' = BitCall("SetBit", "assert_SetBit", pos, FALSE)
               /\ UNCHANGED <<bs, other, nset>>
          ELSE /\ bs' = IF which = 0 THEN SetBit(bs, pos, value) ELSE bs
               /\ other' = IF which = 1 THEN SetBit(other, pos, value) ELSE other
               /\ bres' = BitCall("SetBit", "return", pos, GetBit(s, pos))
               /\ nset' = nset + 1
               /\ UNCHANGED status
  /\ UNCHANGED <<ppc, pargs, current, count, out>>
  /\ UNCHANGED <<mapping_table, next_slot, debug, pc, slot, node_p, last,
                 returned, oob_store, postVars, nodeVars, travVars,
                 opVars>>

\* *this == other
EqCall ==
  /\ status = "running"
  /\ ppc = "idle"
  /\ other.length > 0
  /\ LET r == OperatorEq(bs, other) IN
     /\ bres' = BitCall("operator==", r.op, r.pos, r.ret)
     /\ status' = IF r.op = "return" THEN status ELSE "aborted"
  /\ UNCHANGED <<bs, other, nset, ppc, pargs, current, count, out>>
  /\ UNCHANGED <<mapping_table, next_slot, debug, pc, slot, node_p, last,
                 returned, oob_store, postVars, nodeVars, travVars,
                 opVars>>

\* always_assert(group >= 1 && group <= line)
PrintArgsOK(group, line) == group >= 1 /\ group <= line

\* The warning of Print: line not a multiple of group, else length not a
\* multiple of line.
PrintWarning(s, group, line) ==
  IF line % group # 0 THEN "line"
  ELSE IF s.length % line # 0 THEN "length" ELSE "none"

\* The characters one pass of Print's loop body writes after the digit:
\* a new line after every line digits, else a space after every group.
PrintSeparator(cnt, group, line) ==
  IF cnt % line = 0 THEN <<"\n">>
  ELSE IF cnt % group = 0 THEN <<" ">> ELSE <<>>

\* void Print(int group, int line) const, up to the loop:
\*   size_t current = length - 1; size_t count = 0;
PrintStart(group, line) ==
  /\ status = "running"
  /\ ppc = "idle"
  /\ IF ~PrintArgsOK(group, line)
       THEN /\ status' = "aborted"
            /\ bres' = BitCall("Print", "assert_Print", 0, FALSE)
            /\ UNCHANGED <<ppc, pargs, current, count, out>>
       ELSE /\ pargs' = PrintArgs(group, line, PrintWarning(bs, group, line))
            /\ current' = SizeSub(bs.length, 1)
            /\ count' = 0
            /\ out' = <<>>
            /\ ppc' = "loop"
            /\ bres' = BitCall("Print", "start", 0, FALSE)
            /\ UNCHANGED status
  /\ UNCHANGED <<bs, other, nset>>
  /\ UNCHANGED <<mapping_table, next_slot, debug, pc, slot, node_p, last,
                 returned, oob_store, postVars, nodeVars, travVars,
                 opVars>>

\* The test of the loop while(current >= 0), current being a size_t.
PrintLoopTest(cur) == cur >= 0

\* One test of while(current >= 0) followed by one pass of the body (GetBit,
\* putchar, current--, count++, the separator), or by the code behind the
\* loop and the return.
PrintStep ==
  /\ status = "running"
  /\ ppc = "loop"
  /\ IF PrintLoopTest(current)
       THEN IF ~PosOK(bs, current)
              THEN /\ status' = "aborted"
                   /\ ppc' = "aborted"
                   /\ bres' = BitCall("GetBit", "assert_GetBit", current, FALSE)
                   /\ UNCHANGED <<current, count, out>>
              ELSE /\ out' = out \o <<IF GetBit(bs, current) THEN "1" ELSE "0">>
                                \o PrintSeparator(count + 1, pargs.group,
                                                  pargs.line)
                   /\ current' = SizeSub(current, 1)
                   /\ count' = count + 1
                   /\ bres' = BitCall("GetBit", "return", current,
                                      GetBit(bs, current))
                   /\ UNCHANGED <<status, ppc>>
       ELSE /\ out' = out \o (IF count % pargs.line # 0 THEN <<"\n">>
                                                         ELSE <<>>)
            /\ ppc' = "done"
            /\ bres' = BitCall("Print", "return", 0, FALSE)
            /\ UNCHANGED <<status, current, count>>
  /\ UNCHANGED <<bs, other, nset, pargs>>
  /\ UNCHANGED <<mapping_table, next_slot, debug, pc, slot, node_p, last,
                 returned, oob_store, postVars, nodeVars, travVars,
                 opVars>>

NextPrint ==
  \/ \E pos \in 0..MaxLength, value \in BOOLEAN : SetBitCall(0, pos, value)
  \/ \E group \in 0..(MaxLine + 1), line \in 1..MaxLine : PrintStart(group, line)
  \/ PrintStep

NextBits ==
  \/ \E which \in {0, 1}, pos \in 0..MaxLength, value \in BOOLEAN :
       SetBitCall(which, pos, value)
  \/ EqCall

\* -------------------------------------------- insert, delete, get, remove
\* The logical operations on one leaf, as the specification lays them out
\* (sections 4.5 and 4.6): the tree is the root leaf at LeafNID.
LeafNID == 0

\* Two keys: one that operations race on and another one.
OpKeys == {0, 1}

\* Two racing clients.
Clients == {1, 2}

\* The value a client inserts names the client.
ValueOf(t) == t

OpValues == {ValueOf(t) : t \in Clients}

\* No value: the key is not present.
NoValue == 0

NoPayload == [key |-> 0, value |-> NoValue]

OpRecord(kind, key, value) == [kind |-> kind, key |-> key, value |-> value]

NoOp == OpRecord("none", 0, NoValue)

\* A record of the operation that returned in the step just taken without
\* posting: what it was and what it returned (ret, and got for the value a
\* get found).
OpResult(o, ret, got) ==
  [kind |-> o.kind, key |-> o.key, ret |-> ret, got |-> got]

\* No operation has just returned without posting.
NoResult == OpResult(NoOp, "none", NoValue)

RECURSIVE Lookup(_, _)
\* What a point read of key k finds from record p on: the nearest insert or
\* delete of k decides, else the base's point search.
Lookup(p, k) ==
  IF p = NULL THEN NoValue
  ELSE IF heap[p].type = "LeafBase" THEN base_map[k]
  ELSE IF heap[p].type = "LeafInsert" /\ payload[p].key = k
    THEN payload[p].value
  ELSE IF heap[p].type = "LeafDelete" /\ payload[p].key = k THEN NoValue
  ELSE Lookup(GetNext(p), k)

\* A Remove record is met on the walk from p to the base.
RECURSIVE MeetsRemove(_)
MeetsRemove(p) ==
  IF p = NULL THEN FALSE
  ELSE IF heap[p].type = "LeafBase" THEN FALSE
  ELSE IF heap[p].type = "LeafRemove" THEN TRUE
  ELSE MeetsRemove(GetNext(p))

\* The kind of delta an operation posts.
DeltaTypeOf(kind) ==
  CASE kind = "insert" -> "LeafInsert"
    [] kind = "delete" -> "LeafDelete"
    [] OTHER -> "LeafRemove"

\* The number of records on the walk from p to the base, base included.
RECURSIVE Records(_)
Records(p) ==
  IF p = NULL THEN 0
  ELSE IF heap[p].type = "LeafBase" THEN 1
  ELSE 1 + Records(GetNext(p))

\* The allocator has no room for a delta on top of the chain at h: a chain
\* holds at most MaxChain records.
NoRoom(h) ==
  \/ Records(h) >= MaxChain
  \/ \A n \in NodeIds : heap[n] # NoNode

\* What the operation o decides on the chain at head h without posting:
\* "post" when it has a delta to post.
Decide(o, h) ==
  IF MeetsRemove(h) THEN "Retry"
  ELSE IF o.kind = "get" THEN "Got"
  ELSE IF o.kind = "insert" /\ Lookup(h, o.key) # NoValue THEN "Duplicate"
  ELSE IF o.kind = "delete" /\ Lookup(h, o.key) = NoValue THEN "NotFound"
  ELSE IF NoRoom(h) THEN "AllocationFailure"
  ELSE "post"

\* The address the allocator hands out: the lowest one not in use.
NewNode == CHOOSE n \in NodeIds : heap[n] = NoNode /\ \A m \in 1..(n - 1) : heap[m] # NoNode

\* The reference map after operation o has taken effect.
RefAfter(r, o) ==
  CASE o.kind = "insert" -> [r EXCEPT ![o.key] = o.value]
    [] o.kind = "delete" -> [r EXCEPT ![o.key] = NoValue]
    [] OTHER -> r

\* No operation is under way.
InitNoOps ==
  /\ payload = [n \in NodeIds |-> NoPayload]
  /\ base_map = [k \in OpKeys |-> NoValue]
  /\ ref = [k \in OpKeys |-> NoValue]
  /\ cur_op = [t \in Threads |-> NoOp]
  /\ olast = NoResult

\* A tree that is one leaf: AllocateNodeID(base) has returned LeafNID for a
\* leaf base node (node 1) that is empty or holds key 0.
InitOps ==
  /\ mapping_table = [i \in NIDs |-> IF i = LeafNID THEN 1 ELSE NULL]
  /\ next_slot = 1
  /\ debug = FALSE
  /\ status = "running"
  /\ pc = [t \in Threads |-> "idle"]
  /\ slot = [t \in Threads |-> INVALID_NODE_ID]
  /\ node_p = [t \in Threads |-> NULL]
  /\ last = Call("AllocateNodeID", 0, LeafNID, NULL, 1, LeafNID, TRUE)
  /\ returned = <<LeafNID>>
  /\ oob_store = INVALID_NODE_ID
  /\ heap = [n \in NodeIds |-> IF n = 1 THEN BaseNode ELSE NoNode]
  /\ heap_top = 1
  /\ head = [t \in Threads |-> NULL]
  /\ delta = [t \in Threads |-> NULL]
  /\ pnid = [t \in Threads |-> INVALID_NODE_ID]
  /\ posted = [i \in NIDs |-> <<>>]
  /\ attempts = {}
  /\ payload = [n \in NodeIds |-> NoPayload]
  /\ base_map \in {[k \in OpKeys |-> IF k < n THEN 1 ELSE NoValue] : n \in 0..1}
  /\ ref = base_map
  /\ cur_op = [t \in Threads |-> NoOp]
  /\ olast = NoResult
  /\ InitNoNode
  /\ InitNoTrav
  /\ InitNoBits

\* Steps 1 to 3 of an operation o by thread t: load the chain head of the
\* leaf, walk the chain, and either return at once or build the delta on the
\* head loaded.
OpLoad(t, o) ==
  LET h == At(mapping_table, LeafNID) IN
  IF Decide(o, h) = "post"
    THEN /\ head' = [head EXCEPT ![t] = h]
         /\ pnid' = [pnid EXCEPT ![t] = LeafNID]
         /\ heap_top' = IF NewNode > heap_top THEN NewNode ELSE heap_top
         /\ delta' = [delta EXCEPT ![t] = NewNode]
         /\ heap' = [heap EXCEPT ![NewNode] =
                       DeltaNode(DeltaTypeOf(o.kind), PostHeight(h), h)]
         /\ payload' = [payload EXCEPT ![NewNode] =
                          [key |-> o.key, value |-> o.value]]
         /\ cur_op' = [cur_op EXCEPT ![t] = o]
         /\ pc' = [pc EXCEPT ![t] = "op_cas"]
         /\ olast' = NoResult
    ELSE /\ olast' = OpResult(o, Decide(o, h),
                              IF Decide(o, h) = "Got" THEN Lookup(h, o.key)
                                                       ELSE NoValue)
         /\ cur_op' = [cur_op EXCEPT ![t] = NoOp]
         /\ pc' = [pc EXCEPT ![t] = "idle"]
         /\ UNCHANGED <<head, pnid, heap_top, delta, heap, payload>>

\* insert(k, v), delete(k), get(k), or the posting of a Remove, begun.
OpStart(t, kind, k, v) ==
  /\ status = "running"
  /\ pc[t] = "idle"
  /\ kind \in {"get", "delete", "remove"} => v = NoValue
  /\ kind = "insert" => v = ValueOf(t)
  /\ kind = "remove" => k = 0
  /\ OpLoad(t, OpRecord(kind, k, v))
  /\ UNCHANGED <<mapping_table, next_slot, debug, status, slot, node_p, last,
                 returned, oob_store, posted, attempts, base_map, ref,
                 nodeVars, travVars, bitVars>>

\* Step 3, the CAS: mapping_table.cas(nid, old_head, new_delta).  The
\* operation takes effect and returns Ok when it succeeds; when it fails
\* the delta, which no other thread has seen, is freed.
OpCAS(t) ==
  /\ status = "running"
  /\ pc[t] = "op_cas"
  /\ mapping_table' = CASTable(mapping_table, pnid[t], head[t], delta[t])
  /\ IF CASResult(mapping_table, pnid[t], head[t])
       THEN /\ posted' = [posted EXCEPT ![pnid[t]] = Append(@, delta[t])]
            /\ ref' = RefAfter(ref, cur_op[t])
            /\ olast' = NoResult
            /\ cur_op' = [cur_op EXCEPT ![t] = NoOp]
            /\ pc' = [pc EXCEPT ![t] = "idle"]
            /\ pnid' = [pnid EXCEPT ![t] = INVALID_NODE_ID]
            /\ UNCHANGED <<heap, payload>>
       ELSE /\ heap' = [heap EXCEPT ![delta[t]] = NoNode]
            /\ payload' = [payload EXCEPT ![delta[t]] = NoPayload]
            /\ pc' = [pc EXCEPT ![t] = "op_retry"]
            /\ olast' = NoResult
            /\ UNCHANGED <<posted, ref, cur_op, pnid>>
  /\ head' = [head EXCEPT ![t] = NULL]
  /\ delta' = [delta EXCEPT ![t] = NULL]
  /\ UNCHANGED <<next_slot, debug, status, slot, node_p, last, returned,
                 oob_store, heap_top, attempts, base_map,
                 nodeVars, travVars, bitVars>>

\* Step 4: after a failed CAS the delta is freed and the operation starts
\* over at the leaf.
OpRetry(t) ==
  /\ status = "running"
  /\ pc[t] = "op_retry"
  /\ OpLoad(t, cur_op[t])
  /\ UNCHANGED <<mapping_table, next_slot, debug, status, slot, node_p, last,
                 returned, oob_store, posted, attempts, base_map, ref,
                 nodeVars, travVars, bitVars>>

NextOps ==
  \E t \in Clients :
    \/ \E kind \in {"insert", "delete", "get", "remove"}, k \in OpKeys,
          v \in OpValues \cup {NoValue} : OpStart(t, kind, k, v)
    \/ OpCAS(t)
    \/ OpRetry(t)

\* ------------------------------------------------ split phase 2, helping
\* A tree of a root and its child that is being split (spec section 4.6):
\* the parent at ParentNID, the child at ChildNID, and the right sibling R
\* the splitter has allocated at SiblingNID.
ParentNID == 0

ChildNID == 1

SiblingNID == 2

TreeNIDs == {ParentNID, ChildNID, SiblingNID}

\* The split key S.
SplitKey == 1

\* The nodes of the tree before phase 1: the three base nodes, and the
\* Split(S, R) delta the splitter has built on the child's base.
ParentBase == 1

ChildBase == 2

SiblingBase == 3

SplitDelta == 4

RECURSIVE HasInnerInsert(_)
\* The walk from record p of the parent's chain meets InnerInsert(S, R).
HasInnerInsert(p) ==
  IF p = NULL THEN FALSE
  ELSE IF heap[p].type \in BaseTypes THEN FALSE
  ELSE IF heap[p].type = "InnerInsert" /\ payload[p].key = SplitKey THEN TRUE
  ELSE HasInnerInsert(GetNext(p))

\* The traverser's walk from the child's head c reaches the Split(S, R)
\* delta.
ReachesSplit(c) == c # NULL /\ heap[c].type \in {"LeafSplit", "InnerSplit"}

\* The state after step 2 of the split of a leaf or of an inner node: the
\* table of the tree holds the base nodes of parent, child and right
\* sibling, and the Split(S, R) delta is built on the child's base and not
\* posted yet.
InitHelp ==
  /\ mapping_table = [i \in TreeNIDs |-> i + 1]
  /\ next_slot = 3
  /\ debug = FALSE
  /\ status = "running"
  /\ pc = [t \in Threads |-> "idle"]
  /\ slot = [t \in Threads |-> INVALID_NODE_ID]
  /\ node_p = [t \in Threads |-> NULL]
  /\ last = Call("AllocateNodeID", 0, SiblingNID, NULL, SiblingBase, SiblingNID, TRUE)
  /\ returned = <<ParentNID, ChildNID, SiblingNID>>
  /\ oob_store = INVALID_NODE_ID
  /\ \E level \in {"Leaf", "Inner"} :
       heap = [n \in NodeIds |->
                 CASE n = ParentBase -> BaseNodeOf("InnerBase")
                   [] n = ChildBase ->
                        BaseNodeOf(IF level = "Leaf" THEN "LeafBase"
                                                     ELSE "InnerBase")
                   [] n = SiblingBase ->
                        BaseNodeOf(IF level = "Leaf" THEN "LeafBase"
                                                     ELSE "InnerBase")
                   [] n = SplitDelta ->
                        DeltaNode(IF level = "Leaf" THEN "LeafSplit"
                                                    ELSE "InnerSplit",
                                  1, ChildBase)
                   [] OTHER -> NoNode]
  /\ heap_top = SplitDelta
  /\ head = [t \in Threads |-> NULL]
  /\ delta = [t \in Threads |-> NULL]
  /\ pnid = [t \in Threads |-> INVALID_NODE_ID]
  /\ posted = [i \in TreeNIDs |-> <<>>]
  /\ attempts = {}
  /\ payload = [n \in NodeIds |->
                  IF n = SplitDelta THEN [key |-> SplitKey, value |-> SiblingNID]
                                    ELSE NoPayload]
  /\ base_map = [k \in OpKeys |-> NoValue]
  /\ ref = [k \in OpKeys |-> NoValue]
  /\ cur_op = [t \in Threads |-> NoOp]
  /\ olast = NoResult
  /\ InitNoNode
  /\ InitNoTrav
  /\ InitNoBits

\* What a step of the helping protocol leaves alone.
HelpUnchanged ==
  UNCHANGED <<next_slot, debug, status, slot, node_p, last, returned,
              oob_store, attempts, base_map, ref, cur_op, olast,
              nodeVars, travVars, bitVars>>

\* Phase 1: the splitter posts the Split(S, R) delta on the child NID via
\* CAS, and goes on to phase 2.
SplitPhase1(t) ==
  /\ status = "running"
  /\ pc[t] = "idle"
  /\ At(mapping_table, ChildNID) = ChildBase
  /\ \A u \in Threads : pc[u] # "split_cas"
  /\ pc' = [pc EXCEPT ![t] = "split_cas"]
  /\ head' = [head EXCEPT ![t] = At(mapping_table, ChildNID)]
  /\ UNCHANGED <<mapping_table, heap, heap_top, delta, pnid, posted, payload>>
  /\ HelpUnchanged

SplitCAS(t) ==
  /\ status = "running"
  /\ pc[t] = "split_cas"
  /\ mapping_table' = CASTable(mapping_table, ChildNID, head[t], SplitDelta)
  /\ IF CASResult(mapping_table, ChildNID, head[t])
       THEN /\ posted' = [posted EXCEPT ![ChildNID] = Append(@, SplitDelta)]
            /\ pc' = [pc EXCEPT ![t] = "help_check"]
       ELSE /\ pc' = [pc EXCEPT ![t] = "idle"]
            /\ UNCHANGED posted
  /\ head' = [head EXCEPT ![t] = NULL]
  /\ UNCHANGED <<heap, heap_top, delta, pnid, payload>>
  /\ HelpUnchanged

\* A traverser descends from the parent to the child and walks the child's
\* chain from the head it loads: when it reaches the Split delta it turns to
\* the parent, otherwise it passes on.
HelpReach(t) ==
  /\ status = "running"
  /\ pc[t] = "idle"
  /\ pc' = [pc EXCEPT ![t] =
              IF ReachesSplit(At(mapping_table, ChildNID)) THEN "help_check"
                                                           ELSE "passed"]
  /\ UNCHANGED <<mapping_table, heap, heap_top, head, delta, pnid, posted,
                 payload>>
  /\ HelpUnchanged

\* The helper loads the parent's head and walks the parent's chain: with a
\* matching InnerInsert present it proceeds, otherwise it builds
\* InnerInsert(S, R) on the head loaded.
HelpCheck(t) ==
  /\ status = "running"
  /\ pc[t] \in {"help_check", "help_retry"}
  /\ LET h == At(mapping_table, ParentNID) IN
     IF HasInnerInsert(h)
       THEN /\ pc' = [pc EXCEPT ![t] = "proceeded"]
            /\ UNCHANGED <<heap, heap_top, head, delta, pnid, payload>>
       ELSE /\ \E n \in NodeIds : heap[n] = NoNode
            /\ head' = [head EXCEPT ![t] = h]
            /\ pnid' = [pnid EXCEPT ![t] = ParentNID]
            /\ heap_top' = IF NewNode > heap_top THEN NewNode ELSE heap_top
            /\ delta' = [delta EXCEPT ![t] = NewNode]
            /\ heap' = [heap EXCEPT ![NewNode] =
                          DeltaNode("InnerInsert", PostHeight(h), h)]
            /\ payload' = [payload EXCEPT ![NewNode] =
                             [key |-> SplitKey, value |-> SiblingNID]]
            /\ pc' = [pc EXCEPT ![t] = "help_cas"]
  /\ UNCHANGED <<mapping_table, posted>>
  /\ HelpUnchanged

\* Phase 2's CAS on the parent NID.  The helper whose CAS succeeds has
\* completed the split; one whose CAS fails frees its delta and looks at the
\* parent again.
HelpCAS(t) ==
  /\ status = "running"
  /\ pc[t] = "help_cas"
  /\ mapping_table' = CASTable(mapping_table, pnid[t], head[t], delta[t])
  /\ IF CASResult(mapping_table, pnid[t], head[t])
       THEN /\ posted' = [posted EXCEPT ![pnid[t]] = Append(@, delta[t])]
            /\ pc' = [pc EXCEPT ![t] = "proceeded"]
            /\ UNCHANGED <<heap, payload>>
       ELSE /\ heap' = [heap EXCEPT ![delta[t]] = NoNode]
            /\ payload' = [payload EXCEPT ![delta[t]] = NoPayload]
            /\ pc' = [pc EXCEPT ![t] = "help_retry"]
            /\ UNCHANGED posted
  /\ head' = [head EXCEPT ![t] = NULL]
  /\ delta' = [delta EXCEPT ![t] = NULL]
  /\ pnid' = [pnid EXCEPT ![t] = INVALID_NODE_ID]
  /\ UNCHANGED heap_top
  /\ HelpUnchanged

\* The traversal goes on below the split node and ends; the thread may
\* traverse again.
HelpDone(t) ==
  /\ status = "running"
  /\ pc[t] \in {"proceeded", "passed"}
  /\ pc' = [pc EXCEPT ![t] = "idle"]
  /\ UNCHANGED <<mapping_table, heap, heap_top, head, delta, pnid, posted,
                 payload>>
  /\ HelpUnchanged

NextHelp ==
  \E t \in Threads :
    \/ SplitPhase1(t)
    \/ SplitCAS(t)
    \/ HelpReach(t)
    \/ HelpCheck(t)
    \/ HelpCAS(t)
    \/ HelpDone(t)

\* No posting is under way.
InitNoPost ==
  /\ heap = [n \in NodeIds |-> NoNode]
  /\ heap_top = 0
  /\ head = [t \in Threads |-> NULL]
  /\ delta = [t \in Threads |-> NULL]
  /\ pnid = [t \in Threads |-> INVALID_NODE_ID]
  /\ posted = [i \in NIDs |-> <<>>]
  /\ attempts = {}

\* The state after AllocateNodeID(base) was called TABLE_SIZE times, one
\* after the other, with the base nodes 1..TABLE_SIZE.
InitPost ==
  /\ mapping_table = [i \in NIDs |-> i + 1]
  /\ next_slot = TABLE_SIZE
  /\ debug \in BOOLEAN
  /\ status = "running"
  /\ pc = [t \in Threads |-> "idle"]
  /\ slot = [t \in Threads |-> INVALID_NODE_ID]
  /\ node_p = [t \in Threads |-> NULL]
  /\ last = Call("AllocateNodeID", 0, TABLE_SIZE - 1, NULL, TABLE_SIZE,
                 TABLE_SIZE - 1, TRUE)
  /\ returned = [i \in 1..TABLE_SIZE |-> i - 1]
  /\ oob_store = INVALID_NODE_ID
  /\ heap = [n \in NodeIds |-> IF n <= TABLE_SIZE THEN BaseNode ELSE NoNode]
  /\ heap_top = TABLE_SIZE
  /\ head = [t \in Threads |-> NULL]
  /\ delta = [t \in Threads |-> NULL]
  /\ pnid = [t \in Threads |-> INVALID_NODE_ID]
  /\ posted = [i \in NIDs |-> <<>>]
  /\ attempts = {}
  /\ InitNoNode
  /\ InitNoTrav
  /\ InitNoBits
  /\ InitNoOps

\* The poster loads the chain head with At and builds a delta whose next
\* pointer is that head (AllocateDelta: new DeltaType{...}).
LoadAndBuild(t, nid) ==
  /\ heap_top < TABLE_SIZE + MaxDeltas
  /\ head' = [head EXCEPT ![t] = At(mapping_table, nid)]
  /\ pnid' = [pnid EXCEPT ![t] = nid]
  /\ heap_top' = heap_top + 1
  /\ delta' = [delta EXCEPT ![t] = heap_top + 1]
  /\ heap' = [heap EXCEPT ![heap_top + 1] =
                DeltaNode("LeafInsert", PostHeight(At(mapping_table, nid)),
                          At(mapping_table, nid))]
  /\ pc' = [pc EXCEPT ![t] = "post_cas"]
  /\ UNCHANGED <<mapping_table, next_slot, debug, status, slot, node_p, last,
                 returned, oob_store, posted, attempts, nodeVars, travVars, bitVars, opVars>>

PostLoad(t, nid) ==
  /\ status = "running"
  /\ pc[t] = "idle"
  /\ LoadAndBuild(t, nid)

\* mapping_table.cas(nid, old_head, new_delta)
PostCAS(t) ==
  /\ status = "running"
  /\ pc[t] = "post_cas"
  /\ mapping_table' = CASTable(mapping_table, pnid[t], head[t], delta[t])
  /\ attempts' = attempts \cup
       {[nid |-> pnid[t], old |-> head[t], new |-> delta[t],
         ok |-> CASResult(mapping_table, pnid[t], head[t])]}
  /\ IF CASResult(mapping_table, pnid[t], head[t])
       THEN /\ posted' = [posted EXCEPT ![pnid[t]] = Append(@, delta[t])]
            /\ pc' = [pc EXCEPT ![t] = "idle"]
            /\ pnid' = [pnid EXCEPT ![t] = INVALID_NODE_ID]
       ELSE /\ pc' = [pc EXCEPT ![t] = "post_retry"]
            /\ UNCHANGED <<posted, pnid>>
  /\ head' = [head EXCEPT ![t] = NULL]
  /\ delta' = [delta EXCEPT ![t] = NULL]
  /\ UNCHANGED <<next_slot, debug, status, slot, node_p, last, returned,
                 oob_store, heap, heap_top, nodeVars, travVars, bitVars, opVars>>

\* After a failed CAS the delta is given up and the poster starts over with
\* a freshly loaded head.
PostRetry(t) ==
  /\ status = "running"
  /\ pc[t] = "post_retry"
  /\ LoadAndBuild(t, pnid[t])

NextPost ==
  \E t \in Threads :
    \/ \E nid \in NIDs : PostLoad(t, nid)
    \/ PostCAS(t)
    \/ PostRetry(t)

\* The mapping table is not called while a base node is under test; its
\* variables are at rest.
InitIdleTable ==
  /\ mapping_table = [i \in NIDs |-> NULL]
  /\ next_slot = 0
  /\ pc = [t \in Threads |-> "idle"]
  /\ slot = [t \in Threads |-> INVALID_NODE_ID]
  /\ node_p = [t \in Threads |-> NULL]
  /\ last = NoCall
  /\ returned = <<>>
  /\ oob_store = INVALID_NODE_ID

vars == <<mtVars, postVars, nodeVars, travVars, bitVars, opVars>>

Init ==
  InitTable /\ InitNoPost /\ InitNoNode /\ InitNoTrav /\ InitNoBits /\ InitNoOps

Next == NextTable

\* Threads posting deltas on the NIDs of an allocated table.
SpecPost == InitPost /\ [][NextPost]_vars

\* One base node, the mapping table and the posting state at rest.
InitNodeOnly ==
  /\ InitNode /\ InitIdleTable /\ InitNoPost /\ InitNoTrav /\ InitNoBits
  /\ InitNoOps

\* One call of Traverse on a chain, the rest of the state at rest.
InitTravOnly ==
  InitTrav /\ InitIdleTable /\ InitNoNode /\ InitNoBits /\ InitNoOps

SpecTrav == InitTravOnly /\ [][NextTrav]_vars

\* Traverse runs on: it is not suspended for ever.
SpecTravFair == SpecTrav /\ WF_vars(NextTrav)

\* Calls on one base node.
SpecNode == InitNodeOnly /\ [][NextNode]_vars

\* Two bit sequences, the rest of the state at rest.
InitBitsOnly ==
  /\ InitBits /\ InitIdleTable /\ InitNoPost /\ InitNoNode /\ InitNoTrav
  /\ InitNoOps
  /\ debug \in BOOLEAN
  /\ status = "running"

\* SetBit and operator== on two bit sequences.
SpecBits == InitBitsOnly /\ [][NextBits]_vars

\* One bit sequence to print, the rest of the state at rest.
InitPrintOnly ==
  /\ InitPrint /\ InitIdleTable /\ InitNoPost /\ InitNoNode /\ InitNoTrav
  /\ InitNoOps
  /\ debug \in BOOLEAN
  /\ status = "running"

\* SetBit and Print on one bit sequence.
SpecPrint == InitPrintOnly /\ [][NextPrint]_vars

\* insert, delete, get and the posting of Remove on a tree of one leaf.
SpecOps == InitOps /\ [][NextOps]_vars

\* The split of a child and the helpers of its phase 2.
SpecHelp == InitHelp /\ [][NextHelp]_vars

\* The mapping table called by NumThreads threads, in either build.
Spec == Init /\ [][Next]_vars

\* ------------------------------------------------------------ helpers
Range(s) == {s[i] : i \in 1..Len(s)}

NoDup(s) == Cardinality(Range(s)) = Len(s)

\* The threads between AllocateNodeID's fetch_add and its store.
InFlight == {t \in Threads : pc[t] = "alloc_store"}

\* The step just taken was a successful CAS on slot i.
CASWon(i) == last'.op = "CAS" /\ last'.nid = i /\ last'.ok

\* ------------------------------------------------------------- claims
\* C1 as stated: with at most TABLE_SIZE calls made and no Reset, no two
\* AllocateNodeID calls return the same NID and after n completed calls the
\* NIDs returned are exactly 0..n-1.
C1_ReturnedIsPrefix ==
  next_slot <= TABLE_SIZE =>
    /\ NoDup(returned)
    /\ Range(returned) = 0..(Len(returned) - 1)

\* C1 amended: with at most TABLE_SIZE calls made since construction or the
\* last Reset, every AllocateNodeID call holds or has returned the value
\* next_slot had before its own increment: the NIDs returned and the NIDs
\* held by calls in flight are pairwise distinct and together are exactly
\* 0..next_slot-1; once no call is in flight the n NIDs returned are exactly
\* 0..n-1.
C1_UniqueNIDs ==
  next_slot <= TABLE_SIZE =>
    LET held == {slot[t] : t \in InFlight} IN
    /\ NoDup(returned)
    /\ Cardinality(held) = Cardinality(InFlight)
    /\ held \cap Range(returned) = {}
    /\ held \cup Range(returned) = 0..(next_slot - 1)
    /\ InFlight = {} => Range(returned) = 0..(Len(returned) - 1)

\* C1 witness: two calls overlapped and completed out of order.
C1_Witness ==
  /\ Len(returned) >= 2
  /\ returned[1] = 1
  /\ returned[2] = 0
  /\ InFlight = {}

C2_Step ==
  last'.op = "CAS" =>
    /\ last'.ok <=> (mapping_table[last'.nid] = last'.old)
    /\ last'.ok => mapping_table'[last'.nid] = last'.new
    /\ ~last'.ok => mapping_table'[last'.nid] = mapping_table[last'.nid]
    /\ \A i \in NIDs \ {last'.nid} : mapping_table'[i] = mapping_table[i]
    /\ next_slot' = next_slot

\* C2: CAS(nid, old, new) returns true exactly when slot nid holds old, and
\* the slot then holds new; otherwise it returns false and the slot is
\* unchanged; every other slot and next_slot are unchanged either way.
C2_CASContract == [][C2_Step]_vars

\* C2 witness: a CAS that succeeded and changed its slot while the other
\* slot held a node.
C2_Witness ==
  /\ last.op = "CAS"
  /\ last.ok
  /\ last.old # last.new
  /\ mapping_table[last.nid] = last.new
  /\ \E i \in NIDs \ {last.nid} : mapping_table[i] # NULL

\* The nodes of the chain that starts at pointer p, head first, following
\* GetNext down to the base node.
RECURSIVE Chain(_)
Chain(p) ==
  IF p = NULL THEN <<>>
  ELSE IF heap[p].type \in BaseTypes THEN <<p>>
  ELSE <<p>> \o Chain(GetNext(p))

Reverse(s) == [i \in 1..Len(s) |-> s[Len(s) + 1 - i]]

\* The posting CASes that expected head h on NID i and returned ok.
Racers(i, h, ok) == {a \in attempts : a.nid = i /\ a.old = h /\ a.ok = ok}

\* Every node reachable from some slot.
Reachable == UNION {Range(Chain(At(mapping_table, i))) : i \in NIDs}

\* C3: of the CAS(nid, h, own_new) calls made by threads that loaded the
\* same head h, at most one has returned true and, as soon as one has
\* returned false, exactly one has; the slot holds the pointer of the
\* latest winner, and the pointer of a losing call is in no slot.
C3_OneWinner ==
  /\ \A i \in NIDs, h \in NodeIds :
       /\ Cardinality(Racers(i, h, TRUE)) <= 1
       /\ Racers(i, h, FALSE) # {} => Cardinality(Racers(i, h, TRUE)) = 1
  /\ \A i \in NIDs :
       posted[i] # <<>> => At(mapping_table, i) = posted[i][Len(posted[i])]
  /\ \A a \in attempts :
       ~a.ok => \A i \in NIDs : At(mapping_table, i) # a.new

\* C3 witness: two threads raced on the same head of one NID; one won and
\* one lost.
C3_Witness ==
  \E i \in NIDs, h \in NodeIds :
    /\ Racers(i, h, TRUE) # {}
    /\ Racers(i, h, FALSE) # {}

\* C4: on every NID the chain read from the slot is the deltas whose CAS
\* succeeded, latest first, followed by the base node; a delta whose CAS
\* failed, and a delta not yet CASed, is reachable from no slot.
C4_ChainIsPostedReversed ==
  /\ \A i \in NIDs :
       Chain(At(mapping_table, i)) = Reverse(posted[i]) \o <<i + 1>>
  /\ \A a \in attempts : ~a.ok => a.new \notin Reachable
  /\ \A t \in Threads : pc[t] = "post_cas" => delta[t] \notin Reachable

\* C4 witness: a chain of two posted deltas on one NID, one thread having
\* lost a CAS on that NID and retried.
C4_Witness ==
  \E i \in NIDs :
    /\ Len(posted[i]) >= 2
    /\ \E a \in attempts : a.nid = i /\ ~a.ok
    /\ \E a \in attempts, b \in attempts :
         a.nid = i /\ b.nid = i /\ ~a.ok /\ b.ok /\ b.new > a.new

C5_StaysNonNull ==
  \A i \in Range(returned) :
    (mapping_table[i] # NULL /\ last'.op # "Reset") => mapping_table'[i] # NULL

\* C5 as stated: the slot of a NID that AllocateNodeID returned, once
\* non-null, stays non-null in every step that is not a Reset.
C5_NonNullUntilReset == [][C5_StaysNonNull]_vars

C5_Step ==
  \A i \in NIDs :
    /\ (mapping_table[i] # NULL /\ mapping_table'[i] = NULL) =>
         \/ last'.op = "Reset"
         \/ CASWon(i) /\ last'.new = NULL
         \/ last'.op = "AllocateNodeID" /\ last'.ret = i /\ last'.new = NULL
    /\ (i \in Range(returned) /\ mapping_table'[i] # mapping_table[i]) =>
         \/ last'.op = "Reset"
         \/ CASWon(i)

\* C5 amended: a non-null slot becomes null only by Reset or by a call that
\* is handed a null pointer to store (a successful CAS whose new_value is
\* null, AllocateNodeID storing a null node_p); and once AllocateNodeID has
\* returned a NID only a successful CAS on it (or Reset) changes its slot.
C5_NonNullUnlessNullStored == [][C5_Step]_vars

\* C5 witness: a successful CAS has put null into the slot of a NID that
\* AllocateNodeID returned and that held a node.
C5_Witness ==
  /\ last.op = "CAS"
  /\ last.ok
  /\ last.old # NULL
  /\ last.new = NULL
  /\ last.nid \in Range(returned)
  /\ mapping_table[last.nid] = NULL

C6_Step ==
  /\ last'.op = "AllocateNodeID" => At(mapping_table', last'.ret) = last'.new
  /\ \A i \in Range(returned) :
       At(mapping_table', i) # At(mapping_table, i) =>
         \/ last'.op = "Reset"
         \/ CASWon(i)

\* C6: when AllocateNodeID(node) returns nid, At(nid) is node, and what
\* At(nid) returns changes only by a successful CAS on nid or a Reset.
C6_AtAfterAllocate == [][C6_Step]_vars

\* C6 witness: with every NID allocated, At reads back the node of one.
C6_Witness ==
  /\ last.op = "At"
  /\ last.nid \in Range(returned)
  /\ last.ret # NULL
  /\ Len(returned) = TABLE_SIZE

C7_Step ==
  /\ last'.op = "ReleaseNodeID" =>
       mapping_table' = mapping_table /\ next_slot' = next_slot
  /\ last'.op # "Reset" => next_slot' >= next_slot
  /\ NoDup(returned')

\* C7: ReleaseNodeID changes neither a slot nor next_slot, next_slot never
\* decreases in a step that is not a Reset, and no NID is returned twice
\* (returned lists the NIDs handed out since the last Reset).
C7_NeverReused == [][C7_Step]_vars

\* C7 witness: a NID that was handed out has been released while a later
\* AllocateNodeID holds a larger NID.
C7_Witness ==
  /\ last.op = "ReleaseNodeID"
  /\ last.nid \in Range(returned)
  /\ \E t \in InFlight : slot[t] > last.nid

C8_Body ==
  /\ oob_store' = INVALID_NODE_ID
  /\ \A t \in Threads :
       ( /\ pc[t] = "alloc_store"
         /\ slot[t] >= TABLE_SIZE
         /\ last'.op \in {"AllocateNodeID", "assert_AllocateNodeID",
                          "oob_AllocateNodeID"}
         /\ last'.nid = slot[t] ) =>
           /\ status' = "aborted"
           /\ pc'[t] = "alloc_store"
           /\ returned' = returned
           /\ mapping_table' = mapping_table

\* C8 as stated: in every build an AllocateNodeID call whose fetch_add
\* returned a slot >= TABLE_SIZE fails without a store and without a return,
\* and no store to an index >= TABLE_SIZE ever happens.
C8_NoOutOfRangeStore == [][C8_Body]_vars

\* C8 in a build with assertions: an AllocateNodeID call whose fetch_add
\* returned a slot >= TABLE_SIZE fails by assertion, having incremented
\* next_slot, without a store and without returning a NID; the TABLE_SIZE
\* slots are unchanged.
C8_DebugNoOutOfRangeStore == [][debug => C8_Body]_vars

\* C8 witness: without assertions AllocateNodeID has stored to index
\* TABLE_SIZE, one past the last slot.
C8_Witness ==
  /\ ~debug
  /\ status = "undefined"
  /\ last.op = "oob_AllocateNodeID"
  /\ oob_store = TABLE_SIZE

C9_Step ==
  /\ last'.op = "Reset" =>
       /\ \A i \in NIDs : At(mapping_table', i) = NULL
       /\ next_slot' = 0
  /\ (last.op = "Reset" /\ last'.op = "fetch_add") => last'.ret = 0
  /\ (last'.op = "fetch_add" /\ returned = <<>> /\ InFlight = {}) =>
       last'.ret = 0

\* C9: after Reset (made with no other call in progress) every slot reads
\* null and next_slot is 0, and the next AllocateNodeID (the first to start
\* after the Reset, whatever CAS, At or ReleaseNodeID calls come between)
\* takes NID 0.
C9_ResetClears == [][C9_Step]_vars

\* C9 witness: a Reset of a table whose TABLE_SIZE NIDs were all handed out.
C9_Witness ==
  /\ last.op = "Reset"
  /\ last.ret = TABLE_SIZE
  /\ next_slot = 0
  /\ \A i \in NIDs : mapping_table[i] = NULL

\* The largest index of node n whose key is <= key, given there is one.
LargestIndexLE(n, key) ==
  CHOOSE i \in 0..(n.size - 1) :
    /\ KeyAt(n, i) <= key
    /\ \A j \in 0..(n.size - 1) : KeyAt(n, j) <= key => j <= i

Stored(n, key) == \E i \in 0..(n.size - 1) : KeyAt(n, i) = key

C11_Returns ==
  /\ status = "running"
  /\ nres.op = "PointSearch"
  /\ Stored(bn, nres.key) =>
       /\ nres.ret \in 0..(bn.size - 1)
       /\ KeyAt(bn, nres.ret) = nres.key
  /\ ~Stored(bn, nres.key) => nres.ret = 0 - 1

C12_Step ==
  (nres'.op = "Split" /\ bn.size > 1) =>
    LET pivot == bn.size \div 2 IN
    /\ newn'.type = bn.type
    /\ newn'.height = 0
    /\ newn'.size = bn.size - pivot
    /\ Len(newn'.keys) = newn'.size
    /\ Len(newn'.values) = newn'.size
    /\ \A i \in 0..(newn'.size - 1) :
         /\ KeyAt(newn', i) = KeyAt(bn, pivot + i)
         /\ ValueAt(newn', i) = ValueAt(bn, pivot + i)
    /\ newn'.low = [key |-> KeyAt(bn, pivot), inf |-> FALSE]
    /\ newn'.high = bn.high

\* C12: for a base node of size n > 1 with pivot = n / 2, Split returns a
\* node of the same type, of height 0 and size n - pivot, whose i-th key and
\* value are the original's at index pivot + i, whose low key is the
\* non-infinite key KeyAt(pivot) and whose high key is the original's.
C12_SplitUpperHalf == [][C12_Step]_vars

\* C12 witness: a node of three keys with a finite high key, whose values
\* differ from its keys, has been split into one key and two.
C12_Witness ==
  /\ nres.op = "Split"
  /\ bn.size = 3
  /\ newn.size = 2
  /\ bn.high.inf = FALSE
  /\ bn.values # bn.keys

C13_Step ==
  nres'.fn = "Split" => (bn' = bn /\ mapping_table' = mapping_table)

\* C13: Split changes nothing in the node it is called on (size, type,
\* height, low and high key, keys and values) and writes no mapping-table
\* slot.
C13_SplitLeavesOriginal == [][C13_Step]_vars

\* C13 witness: after a split of a node of two keys with an infinite high
\* key the original still has both keys and its infinite high key.
C13_Witness ==
  /\ nres.op = "Split"
  /\ bn.size = 2
  /\ Len(bn.keys) = 2
  /\ bn.high.inf
  /\ newn.size = 1
  /\ newn.low.key = KeyAt(bn, 1)

C14_HalvesNonEmpty ==
  (nres.op = "Split" /\ bn.size > 1) =>
    /\ nres.ret >= 1
    /\ newn.size >= 1
    /\ nres.ret + newn.size = bn.size

C14_FailsByAssertion ==
  (nres.fn = "Split" /\ bn.size <= 1) =>
    /\ status = "aborted"
    /\ nres.op = "assert_Split"
    /\ newn = NoBaseNode

\* C14 as stated: called on a base node of size 0 or 1 Split fails by
\* assertion and returns no node, and for every size > 1 the lower half
\* [0, pivot) and the returned upper half [pivot, size) are non-empty.
C14_SplitNeedsTwoKeys == C14_FailsByAssertion /\ C14_HalvesNonEmpty

\* C14 amended: in a build with assertions Split called on a base node of
\* size 0 or 1 fails by assertion and returns no node; without assertions
\* it returns a copy of the whole node for size 1 (pivot 0, empty lower
\* half) and returns no node for size 0 (KeyAt(0) is read outside the
\* node); for every size > 1, in either build, both halves are non-empty.
C14_SplitNeedsTwoKeysDebug ==
  /\ debug => C14_FailsByAssertion
  /\ (~debug /\ nres.fn = "Split" /\ bn.size = 1) =>
       (nres.op = "Split" /\ nres.ret = 0 /\ newn.keys = bn.keys)
  /\ (~debug /\ nres.fn = "Split" /\ bn.size = 0) =>
       (nres.op = "oob_KeyAt" /\ newn = NoBaseNode)
  /\ C14_HalvesNonEmpty

\* C14 witness: the assertion of Split has failed on a node of one key.
C14_Witness ==
  /\ debug
  /\ status = "aborted"
  /\ nres.op = "assert_Split"
  /\ bn.size = 1
  /\ newn = NoBaseNode

\* C20: on every NID the chain read from the slot ends in a base node
\* (LeafBase or InnerBase) of height 0, which is its only base node, and
\* the height of every delta is the height of its successor plus 1, so
\* heights strictly decrease from head to base.
C20_HeightsDecrease ==
  \A i \in NIDs :
    LET c == Chain(At(mapping_table, i)) IN
    /\ c # <<>>
    /\ heap[c[Len(c)]].type \in BaseTypes
    /\ heap[c[Len(c)]].height = 0
    /\ GetNext(c[Len(c)]) = NULL
    /\ \A k \in 1..(Len(c) - 1) :
         /\ heap[c[k]].type \notin BaseTypes
         /\ GetNext(c[k]) = c[k + 1]
         /\ heap[c[k]].height = heap[c[k + 1]].height + 1
         /\ heap[c[k]].height > heap[c[k + 1]].height

\* C20 witness: a chain of three deltas on a base node, its head of
\* height 3.
C20_Witness ==
  \E i \in NIDs :
    /\ Len(Chain(At(mapping_table, i))) = 4
    /\ heap[At(mapping_table, i)].height = 3

\* The step is a turn of Traverse's loop that dispatches a record whose
\* type is in types.
Dispatches(types) ==
  /\ tpc = "loop"
  /\ status = "running"
  /\ ValidNode(trav_node_p)
  /\ heap[trav_node_p].type \in types
  /\ last_d'.node = trav_node_p

\* Traverse goes on to another turn of its loop.
GoesOn == tpc' = "loop" /\ status' = "running"

C15_Step == Dispatches(BaseTypes) => ~GoesOn

\* C15 as stated: in every build, whenever Traverse dispatches a LeafBase
\* or InnerBase record it stops there (finished is true or the assertion
\* has fired): it never goes on to a next pointer from a base node.
C15_StopsAtBase == [][C15_Step]_vars

C15_DebugStep ==
  Dispatches(BaseTypes) =>
    /\ debug => ~GoesOn
    /\ (debug /\ ~finished') => status' = "aborted"
    /\ finished' => (tpc' = "done" /\ status' = "running")
    /\ (~debug /\ ~finished') => (GoesOn /\ trav_node_p' = next_p')

\* C15 amended: in a build with assertions, whenever Traverse dispatches a
\* LeafBase or InnerBase record either finished is true when the handler
\* returns and Traverse returns, or the assertion fails, so Traverse never
\* follows a pointer out of a base node; without assertions Traverse stops
\* at the base node exactly when the handler has set finished, and goes on
\* at handler.GetNext() when it has not.
C15_StopsAtBaseDebug == [][C15_DebugStep]_vars

\* C15 witness: the assertion after HandleLeafBase has failed at the end of
\* a chain of two or more records.
C15_Witness ==
  /\ debug
  /\ status = "aborted"
  /\ last_d.handler = "HandleLeafBase"
  /\ ~finished
  /\ ndispatch >= 2

C16_Step == Dispatches(MergeTypes) => ~GoesOn

\* C16 as stated: in every build, whenever Traverse dispatches a LeafMerge
\* or InnerMerge record it stops there (finished is true or the assertion
\* has fired): the traverser never walks past a merge delta.
C16_StopsAtMerge == [][C16_Step]_vars

C16_DebugStep ==
  Dispatches(MergeTypes) =>
    /\ debug => ~GoesOn
    /\ (debug /\ ~finished') => status' = "aborted"
    /\ finished' => (tpc' = "done" /\ status' = "running")
    /\ (~debug /\ ~finished') => (GoesOn /\ trav_node_p' = next_p')

\* C16 amended: in a build with assertions, whenever Traverse dispatches a
\* LeafMerge or InnerMerge record either finished is true when the handler
\* returns and Traverse returns, or the assertion fails, so the traverser
\* never walks past a merge delta; without assertions it stops at the merge
\* delta exactly when the handler has set finished, and goes on at
\* handler.GetNext() when it has not.
C16_StopsAtMergeDebug == [][C16_DebugStep]_vars

\* C16 witness: Traverse has returned from an InnerMerge delta, the handler
\* having set finished, with the base node not dispatched.
C16_Witness ==
  /\ tpc = "done"
  /\ status = "running"
  /\ last_d.handler = "HandleInnerMerge"
  /\ finished
  /\ heap[last_d.node].next # NULL

C17_Step ==
  Dispatches((LeafDeltaTypes \cup InnerDeltaTypes) \ MergeTypes) =>
    /\ status' = "running"
    /\ ~finished' => (tpc' = "loop" /\ trav_node_p' = next_p')
    /\ finished' => (tpc' = "done" /\ trav_node_p' = trav_node_p)

\* C17: for Insert, Delete, Split and Remove records (leaf or inner), in
\* either build, no assertion follows the handler: if it leaves finished
\* false Traverse goes on and the record it dispatches next is the one
\* handler.GetNext() returns; if it sets finished Traverse returns and
\* dispatches nothing more.
C17_OtherKindsAdvance == [][C17_Step]_vars

\* C17 witness: with assertions on, a Remove handler left finished false
\* and set next_p to a record other than the delta's own next; Traverse
\* goes on there.
C17_Witness ==
  /\ debug
  /\ tpc = "loop"
  /\ status = "running"
  /\ last_d.handler = "HandleLeafRemove"
  /\ ~finished
  /\ trav_node_p = next_p
  /\ ValidNode(next_p)
  /\ next_p # heap[last_d.node].next

C18_Step ==
  ( /\ hmode = "noassign"
    /\ Dispatches((LeafDeltaTypes \cup InnerDeltaTypes) \ MergeTypes)
    /\ ~finished' ) =>
      trav_node_p' = GetNext(trav_node_p)

\* C18 as stated: with a handler that does not assign next_p itself, after
\* a delta record d (not a merge) has been handled without finishing, the
\* traverser continues at d.GetNext().
C18_DefaultsToRecordNext == [][C18_Step]_vars

\* C18 witness: with a handler that never assigns next_p, Traverse has
\* left the head delta for a pointer that is not the delta's next.
C18_Witness ==
  /\ hmode = "noassign"
  /\ tpc = "loop"
  /\ ndispatch = 1
  /\ ~finished
  /\ trav_node_p # heap[last_d.node].next
  /\ heap[last_d.node].next # NULL

\* The number of records of the chain Traverse was called on.
ChainLen == Len(Chain(1))

Terminated == tpc = "done" \/ status # "running"

C19_InOrder ==
  /\ tpc # "start" => init_calls = 1
  /\ tpc = "start" => (init_calls = 0 /\ ndispatch = 0)
  /\ ndispatch <= ChainLen
  /\ ndispatch >= 1 =>
       /\ last_d.node = Chain(1)[ndispatch]
       /\ last_d.handler = "Handle" \o heap[last_d.node].type
  /\ (tpc = "loop" /\ status = "running") =>
       (ndispatch < ChainLen /\ trav_node_p = Chain(1)[ndispatch + 1])
  /\ status # "undefined"

C25_NoInfiniteBoundCompared ==
  kres.fn # "none" =>
    /\ \A i \in 1..Len(kres.compared) : kres.compared[i].inf = FALSE
    /\ kres.op # "assert_BoundKey"
    /\ kres.op = kres.fn

\* KeyInNode on a node whose high key is infinite and whose low key is
\* not: the low key is the one bound compared.
C25_Witness ==
  /\ kres.op = "KeyInNode"
  /\ bn.high.inf
  /\ bn.low.inf = FALSE
  /\ kres.compared = <<bn.low>>
  /\ debug

\* ---------------------------------------------------------------- C26
\* low <= high, an infinite low key being below and an infinite high key
\* above every key.
LowLEHigh(n) == n.low.inf \/ n.high.inf \/ n.low.key <= n.high.key

\* key lies in the half-open range [low, high) of n.
InHalfOpenRange(n, key) ==
  /\ n.low.inf \/ n.low.key <= key
  /\ n.high.inf \/ key < n.high.key

\* The number of the three key-range functions that hold of key.
NumHolding(n, key) ==
  Cardinality({f \in {"smaller", "in", "larger"} :
                 \/ f = "smaller" /\ KeySmallerThanNode(n, key)
                 \/ f = "in" /\ KeyInNode(n, key)
                 \/ f = "larger" /\ KeyLargerThanNode(n, key)})

\* C26: KeyInNode(key) returns true exactly when key lies in [low, high);
\* on a node with low <= high exactly one of KeySmallerThanNode, KeyInNode
\* and KeyLargerThanNode holds of every key; and a key equal to the high
\* key is reported as larger than the node.
C26_KeyInNodeHalfOpen ==
  /\ kres.op = "KeyInNode" => kres.ret = InHalfOpenRange(bn, kres.key)
  /\ kres.op = "KeySmallerThanNode" =>
       kres.ret = (bn.low.inf = FALSE /\ kres.key < bn.low.key)
  /\ kres.op = "KeyLargerThanNode" =>
       kres.ret = (bn.high.inf = FALSE /\ kres.key >= bn.high.key)
  /\ (kres.op # "none" /\ LowLEHigh(bn)) => NumHolding(bn, kres.key) = 1
  /\ (kres.op = "KeyLargerThanNode" /\ bn.high.inf = FALSE
        /\ kres.key = bn.high.key) => kres.ret = TRUE

\* KeyLargerThanNode called with the high key of a node whose bounds are
\* both finite and differ.
C26_Witness ==
  /\ kres.op = "KeyLargerThanNode"
  /\ bn.high.inf = FALSE
  /\ bn.low.inf = FALSE
  /\ bn.low.key < bn.high.key
  /\ kres.key = bn.high.key
  /\ kres.ret = TRUE

\* ---------------------------------------------------------------- C28
\* Every key stored in n lies in n's own [low, high).
KeysInRange(n) == \A i \in 0..(n.size - 1) : KeyInNode(n, KeyAt(n, i))

\* The keys of n are strictly ascending.
StrictlyAscending(n) ==
  \A i \in 0..(n.size - 2) : KeyAt(n, i) < KeyAt(n, i + 1)

\* C28: Split partitions a base node whose keys are strictly ascending and
\* lie in its [low, high) at the split key S = KeyAt(pivot): the keys below
\* index pivot are < S; every key of the returned node is >= S and in the
\* returned node's range; the returned keys are strictly ascending; and the
\* original's entries [0, pivot) followed by the returned node's entries
\* are the original key and value sequences.
C28_SplitPartitions ==
  (nres.op = "Split" /\ StrictlyAscending(bn) /\ KeysInRange(bn)) =>
    LET pivot == nres.ret
        S == KeyAt(bn, pivot) IN
    /\ pivot = SplitPivot(bn.size)
    /\ \A i \in 0..(pivot - 1) : KeyAt(bn, i) < S
    /\ newn.size = Len(newn.keys) /\ newn.size = Len(newn.values)
    /\ \A j \in 0..(newn.size - 1) :
         KeyAt(newn, j) >= S /\ KeyInNode(newn, KeyAt(newn, j))
    /\ StrictlyAscending(newn)
    /\ SubSeq(bn.keys, 1, pivot) \o newn.keys = bn.keys
    /\ SubSeq(bn.values, 1, pivot) \o newn.values = bn.values

\* A node of three keys between finite bounds, with values that differ from
\* the keys, has been split at index 1.
C28_Witness ==
  /\ nres.op = "Split"
  /\ bn.size = 3
  /\ KeysInRange(bn)
  /\ bn.low.inf = FALSE /\ bn.high.inf = FALSE
  /\ bn.values # bn.keys
  /\ nres.ret = 1
  /\ newn.size = 2

\* ---------------------------------------------------------------- C27
\* A step that is no Reset and that neither takes nor stores a null pointer
\* (no AllocateNodeID of a null node, no successful CAS to null).
C27_NullFreeStep ==
  /\ last'.op # "Reset"
  /\ ~(last'.op = "fetch_add" /\ last'.new = NULL)
  /\ ~(last'.op = "AllocateNodeID" /\ last'.new = NULL)
  /\ ~(last'.op = "CAS" /\ last'.ok /\ last'.new = NULL)

C27_BelowNextNonNull ==
  \A i \in NIDs : i < next_slot => mapping_table[i] # NULL

C27_OriginalStep ==
  (C27_NullFreeStep /\ C27_BelowNextNonNull) =>
    /\ C27_BelowNextNonNull'
    /\ (last'.op = "At" /\ last'.nid < next_slot) => last'.ret # NULL

\* C27 as stated: as long as no null pointer is stored and no Reset is made,
\* every slot below next_slot holds a non-null pointer in every state, also
\* while AllocateNodeID calls are in flight, and At(nid) never returns null
\* for nid < next_slot.
C27_NonNullBelowNextSlot == [][C27_OriginalStep]_vars

C27_ReturnedNonNull ==
  \A i \in Range(returned) : mapping_table[i] # NULL

C27_Step ==
  (C27_NullFreeStep /\ C27_ReturnedNonNull) =>
    /\ C27_ReturnedNonNull'
    /\ (last'.op = "At" /\ last'.nid \in Range(returned)) => last'.ret # NULL
    /\ \A i \in NIDs :
         (i < next_slot' /\ mapping_table'[i] = NULL /\ status' = "running") =>
           \/ \E t \in Threads : pc'[t] = "alloc_store" /\ slot'[t] = i
           \/ i \notin Range(returned')

\* C27 amended: as long as no null pointer is stored and no Reset is made,
\* the slot of every NID that AllocateNodeID has returned holds a non-null
\* pointer and At of such a NID never returns null; a slot below next_slot
\* may hold null only while its NID has not been returned yet.
C27_NonNullOnceReturned == [][C27_Step]_vars

\* C27 witness: At reads the node of a returned NID while another thread
\* is between its fetch_add and its store, its slot below next_slot still
\* holding null.
C27_Witness ==
  /\ last.op = "At"
  /\ last.nid \in Range(returned)
  /\ last.ret # NULL
  /\ \E t \in Threads :
       /\ pc[t] = "alloc_store"
       /\ slot[t] \in NIDs
       /\ slot[t] < next_slot
       /\ mapping_table[slot[t]] = NULL

\* ---------------------------------------------------------------- C29
\* a and b have the same length and the same bit at every position below it.
SameBits(a, b) ==
  /\ a.length = b.length
  /\ \A pos \in 0..(a.length - 1) : GetBit(a, pos) = GetBit(b, pos)

\* C29: operator== returns, and returns true exactly when both sequences
\* have the same length and the same bit at every position 0..length-1,
\* whatever the length is, a multiple of 8 or not.
C29_EqualIffSameBits ==
  bres.fn = "operator==" =>
    /\ bres.op = "return"
    /\ bres.ret = SameBits(bs, other)

\* operator== has returned true for two sequences of the same length, not
\* a multiple of 8, that differ in a bit of the trailing partial byte.
C29_Witness ==
  /\ bres.fn = "operator=="
  /\ bres.op = "return"
  /\ bres.ret = TRUE
  /\ bs.length = other.length
  /\ bs.length % 8 # 0
  /\ \E pos \in (8 * BYTE_OFFSET(bs.length))..(bs.length - 1) :
       GetBit(bs, pos) # GetBit(other, pos)

\* ---------------------------------------------------------------- C30
\* The binary digits among the characters written.
Digits(o) == SelectSeq(o, LAMBDA c : c \in {"0", "1"})

\* The digits of s from bit length-1 down to bit 0.
DigitsDown(s) ==
  [i \in 1..s.length |-> IF GetBit(s, s.length - i) THEN "1" ELSE "0"]

\* C30: Print(group, line) with 1 <= group <= line never calls GetBit with
\* a position >= length and does not end in an assertion; the digits it has
\* written are the first count digits of the sequence from bit length-1
\* down to bit 0, never more than length of them; and once it has returned
\* it has written exactly length digits.
C30_PrintsLengthDigits ==
  ppc # "idle" =>
    /\ ppc # "aborted"
    /\ status = "running"
    /\ bres.fn = "GetBit" => bres.pos < bs.length
    /\ count <= bs.length
    /\ Digits(out) = SubSeq(DigitsDown(bs), 1, count)
    /\ ppc = "done" => count = bs.length

\* Print has written all the digits of a sequence with a bit set and has
\* then ended in the assertion of GetBit, called with a position that is
\* not below length.
C30_Witness ==
  /\ ppc = "aborted"
  /\ status = "aborted"
  /\ bs.length >= 2
  /\ \E pos \in 0..(bs.length - 1) : GetBit(bs, pos)
  /\ Digits(out) = DigitsDown(bs)
  /\ bres.op = "assert_GetBit"
  /\ bres.pos >= bs.length


\* -------------------------------------------------- insert, get, Duplicate
\* What a point read of key k finds in the leaf now.
OpsView(k) == Lookup(At(mapping_table, LeafNID), k)

\* The step is the CAS by which thread t's pending operation of this kind
\* returns Ok.
ReturnsOk(t, kind) ==
  /\ pc[t] = "op_cas"
  /\ pc'[t] = "idle"
  /\ cur_op[t].kind = kind

\* The step completes an operation of this kind without posting (its result
\* is the one recorded in olast').
ReturnsAtOnce(kind) ==
  /\ \/ pc' = pc /\ olast' # olast
     \/ \E t \in Threads : pc[t] = "op_retry" /\ pc'[t] = "idle"
  /\ olast'.kind = kind

\* An insert of k has returned Ok and no delete of k has returned Ok since,
\* or the key was in the base node from the start: the reference map holds
\* k.
Inserted(k) == ref[k] # NoValue

\* C21: after insert(k, v) returned Ok, get(k) returns Some(v), and a second
\* insert(k, _) returns Duplicate and leaves the value stored for k and the
\* chain of the owning leaf unchanged.  As steps, on a leaf no Remove has
\* been posted on: the CAS by which insert(k, v) returns Ok leaves v readable
\* at k; a get of an inserted key returns the value inserted; an insert of an
\* inserted key returns Duplicate, never builds a delta, and changes neither
\* the slot, nor a record, nor what any key reads.
C21_Step ==
  /\ \A t \in Threads, k \in OpKeys, v \in OpValues :
       (ReturnsOk(t, "insert") /\ cur_op[t].key = k /\ cur_op[t].value = v) =>
         /\ OpsView(k)' = v
         /\ ref'[k] = v
  /\ (ReturnsAtOnce("get") /\ olast'.ret # "Retry" /\ Inserted(olast'.key)) =>
       /\ olast'.ret = "Got"
       /\ olast'.got = ref[olast'.key]
  /\ (ReturnsAtOnce("insert") /\ olast'.ret # "Retry"
        /\ Inserted(olast'.key)) =>
       /\ olast'.ret = "Duplicate"
       /\ mapping_table' = mapping_table
       /\ heap' = heap
       /\ payload' = payload
       /\ \A k \in OpKeys : OpsView(k)' = OpsView(k)
  /\ \A t \in Threads :
       (pc[t] # "op_cas" /\ pc'[t] = "op_cas" /\ cur_op'[t].kind = "insert") =>
         ~Inserted(cur_op'[t].key)

C21_InsertGetDuplicate == [][C21_Step]_vars

\* Witness of C21: insert(k, v) has returned Ok with records of another key
\* above it in the chain, and a second insert of k has just returned
\* Duplicate.
C21_Witness ==
  /\ olast.kind = "insert"
  /\ olast.ret = "Duplicate"
  /\ base_map[olast.key] = NoValue
  /\ Len(posted[LeafNID]) >= 2
  /\ heap[posted[LeafNID][1]].type = "LeafInsert"
  /\ payload[posted[LeafNID][1]].key = olast.key
  /\ payload[posted[LeafNID][2]].key # olast.key


\* ------------------------------------------------------- linearizability
\* How many times key k is present in the leaf: once if the base node holds
\* it, once more for every insert posted, once less for every delete posted.
Presence(k) ==
  (IF base_map[k] # NoValue THEN 1 ELSE 0)
  + Cardinality({i \in 1..Len(posted[LeafNID]) :
                   /\ heap[posted[LeafNID][i]].type = "LeafInsert"
                   /\ payload[posted[LeafNID][i]].key = k})
  - Cardinality({i \in 1..Len(posted[LeafNID]) :
                   /\ heap[posted[LeafNID][i]].type = "LeafDelete"
                   /\ payload[posted[LeafNID][i]].key = k})

\* The leaf reads as the reference map does, every delta whose operation
\* returned Ok is in the chain, and no key is present twice.
C22_Agrees ==
  /\ \A k \in OpKeys : OpsView(k) = ref[k]
  /\ \A i \in 1..Len(posted[LeafNID]) :
       posted[LeafNID][i] \in Range(Chain(At(mapping_table, LeafNID)))
  /\ \A k \in OpKeys : Presence(k) \in {0, 1}
  /\ \A k \in OpKeys : Presence(k) = 1 <=> ref[k] # NoValue

\* Every result is the one the reference map gives at the operation's
\* linearization point: an insert or delete that returns Ok does so in the
\* step of a CAS that found the head it loaded and installed its delta, on a
\* key that was absent (insert) or present (delete); Duplicate, NotFound and
\* the value of a get are those of the reference map at the head load, which
\* they leave alone.
C22_Step ==
  /\ \A t \in Threads, k \in OpKeys :
       ((ReturnsOk(t, "insert") \/ ReturnsOk(t, "delete"))
          /\ cur_op[t].key = k) =>
         /\ mapping_table[LeafNID] = head[t]
         /\ mapping_table'[LeafNID] = delta[t]
         /\ ReturnsOk(t, "insert") =>
              ref[k] = NoValue /\ ref'[k] = cur_op[t].value
         /\ ReturnsOk(t, "delete") => ref[k] # NoValue /\ ref'[k] = NoValue
         /\ \A j \in OpKeys \ {k} : ref'[j] = ref[j]
  /\ \A kind \in {"insert", "delete", "get"} :
       (ReturnsAtOnce(kind) /\ olast'.ret # "Retry") =>
         /\ olast'.ret = "Duplicate" =>
              kind = "insert" /\ ref[olast'.key] # NoValue
         /\ olast'.ret = "NotFound" =>
              kind = "delete" /\ ref[olast'.key] = NoValue
         /\ olast'.ret = "Got" => kind = "get" /\ olast'.got = ref[olast'.key]
         /\ olast'.ret \in {"Duplicate", "NotFound", "Got", "AllocationFailure"}
         /\ ref' = ref
         /\ mapping_table' = mapping_table
  /\ (\A t \in Threads : pc[t] = "op_cas" => pc'[t] # "idle") => ref' = ref

\* C22: under any interleaving of concurrent insert, delete and get the
\* results are those of a single-threaded reference map, each insert and
\* delete taking effect at its successful CAS: no insert that returned Ok is
\* lost, no delete returns Ok for a key that was absent, and no key is
\* present twice.
C22_Linearizable == []C22_Agrees /\ [][C22_Step]_vars

\* Witness of C22: two operations on one key raced, the CAS of one failed,
\* and after its retry an insert and a delete of that key have both taken
\* effect.
C22_Witness ==
  /\ \E t \in Threads : pc[t] = "op_retry" /\ cur_op[t].kind = "insert"
  /\ Len(posted[LeafNID]) >= 2
  /\ heap[posted[LeafNID][1]].type = "LeafInsert"
  /\ heap[posted[LeafNID][2]].type = "LeafDelete"
  /\ payload[posted[LeafNID][1]].key = payload[posted[LeafNID][2]].key


\* ------------------------------------------------------ Remove is the head
RemoveTypes == {"LeafRemove", "InnerRemove"}

\* A Remove delta has been posted on NID i by a successful CAS.
RemovePosted(i) ==
  \E j \in 1..Len(posted[i]) : heap[posted[i][j]].type \in RemoveTypes

\* A Remove record in the chain held by a slot is the head of that chain.
C24_RemoveIsHead ==
  \A i \in NIDs :
    \A j \in 1..Len(Chain(At(mapping_table, i))) :
      heap[Chain(At(mapping_table, i))[j]].type \in RemoveTypes => j = 1

\* Once a Remove has been posted on a NID, no delta is posted on it and its
\* slot keeps its value.
C24_Step ==
  \A i \in NIDs :
    RemovePosted(i) =>
      /\ posted'[i] = posted[i]
      /\ mapping_table'[i] = mapping_table[i]

\* C24: after a Remove delta has been posted on a NID via CAS, no further
\* delta of any kind is ever posted on that NID: in every reachable state a
\* Remove record, if present in the chain held by a slot, is the head of that
\* chain.
C24_NothingAfterRemove == []C24_RemoveIsHead /\ [][C24_Step]_vars

\* Witness of C24: a Remove was posted on top of an earlier delta, and an
\* insert or delete that loaded the head after it met the Remove and was
\* turned away.
C24_Witness ==
  /\ RemovePosted(LeafNID)
  /\ Len(posted[LeafNID]) >= 2
  /\ heap[At(mapping_table, LeafNID)].type = "LeafRemove"
  /\ olast.ret = "Retry"
  /\ olast.kind \in {"insert", "delete"}


\* ------------------------------------------------ helping, exactly once
\* The InnerInsert(S, R) deltas posted on the parent NID by a successful
\* CAS.
InnerInsertsPosted ==
  {i \in 1..Len(posted[ParentNID]) :
     /\ heap[posted[ParentNID][i]].type = "InnerInsert"
     /\ payload[posted[ParentNID][i]].key = SplitKey}

\* The InnerInsert(S, R) records in the chain the parent's slot holds.
InnerInsertsInChain ==
  {j \in 1..Len(Chain(At(mapping_table, ParentNID))) :
     /\ heap[Chain(At(mapping_table, ParentNID))[j]].type = "InnerInsert"
     /\ payload[Chain(At(mapping_table, ParentNID))[j]].key = SplitKey}

\* At most one phase-2 CAS has won, the parent's chain holds the InnerInsert
\* of every CAS that won, and a helper that has proceeded leaves exactly one
\* InnerInsert for S behind.
C23_AtMostOnce ==
  /\ Cardinality(InnerInsertsPosted) <= 1
  /\ Cardinality(InnerInsertsInChain) = Cardinality(InnerInsertsPosted)
  /\ \A t \in Threads :
       pc[t] = "proceeded" => Cardinality(InnerInsertsInChain) = 1
  /\ Cardinality(InnerInsertsInChain) = 1 => ReachesSplit(At(mapping_table, ChildNID))

\* A helper's CAS wins only on the head it loaded, with no InnerInsert for S
\* in the parent's chain; with one posted no helper builds a second one, and
\* a helper whose CAS failed proceeds without posting once it observes it.
C23_Step ==
  /\ \A t \in Threads :
       (pc[t] = "help_cas" /\ pc'[t] = "proceeded") =>
         /\ mapping_table[ParentNID] = head[t]
         /\ mapping_table'[ParentNID] = delta[t]
         /\ Cardinality(InnerInsertsInChain) = 0
  /\ \A t \in Threads :
       (pc[t] # "help_cas" /\ pc'[t] = "help_cas") =>
         Cardinality(InnerInsertsInChain) = 0
  /\ \A t \in Threads :
       (pc[t] = "help_retry" /\ pc'[t] # "help_retry") =>
         /\ pc'[t] = "proceeded"
         /\ mapping_table' = mapping_table
         /\ posted' = posted
  /\ Cardinality(InnerInsertsInChain) = 1 =>
       /\ mapping_table' = mapping_table
       /\ posted' = posted

\* C23: split phase 2 is completed by helping, exactly once: after a
\* Split(S, R) delta has been posted on a child NID, when any number of
\* threads concurrently try to post the matching InnerInsert(S, R, ...) on the
\* parent NID, exactly one CAS wins, the parent chain ends up with exactly one
\* InnerInsert for S, and every losing helper observes it and proceeds
\* without posting a second one.
C23_HelpedExactlyOnce == []C23_AtMostOnce /\ [][C23_Step]_vars

\* Witness of C23: two helpers raced on phase 2's CAS; one has won and
\* proceeded, the other lost, freed its delta and is about to look at the
\* parent again.
C23_Witness ==
  /\ Cardinality(InnerInsertsInChain) = 1
  /\ \E t \in Threads : pc[t] = "help_retry"
  /\ \E t \in Threads : pc[t] = "proceeded"

====
